---- MODULE Spec2Model ----
(***************************************************************************)
(* A model of the memfs inode layer (src/inode/directory_inode.go) and of  *)
(* the directory-level reverse path lookup (src/directory/directory.go).   *)
(*                                                                         *)
(* Every inode carries one sync.RWMutex.  A method is split into steps at  *)
(* the places where it acquires a lock: one step is "acquire the lock and  *)
(* run until the next acquisition (or the return)".  The table updates of  *)
(* MoveEntry/renameEntry are kept as separate steps, so that the states    *)
(* between two updates exist in the model.                                 *)
(***************************************************************************)
EXTENDS Integers, Sequences, FiniteSets, TLC

\* ----------------------------------------------------------------- bounds
MaxInodes == 4
MaxThreads == 2
\* the number of calls made in one run
MaxCalls == 5
\* the number of calls made in a run that records their results
MaxRecorded == 4
\* the largest value of a byte
MaxByte == 1
\* the length of the longest file and of the longest buffer a run starts with
MaxLen == 2
\* the number of bits int64 has in the model; int has as many, or half as many
Int64Bits == 6
\* the most spare capacity an append that reallocates leaves behind the data
MaxSlack == 1

Inodes == 0 .. (MaxInodes - 1)
Threads == 1 .. MaxThreads
\* the single caller of the sequential specification
MainThread == CHOOSE t \in Threads : \A u \in Threads : t <= u

\* ------------------------------------------------------- program constants
Root == 0
NoInode == 0 - 1
NoThread == 0 - 1

SelfDirectoryEntry == "."
ParentDirectoryEntry == ".."
Special == {SelfDirectoryEntry, ParentDirectoryEntry}
\* the ordinary entry names callers use
Names == {"a", "b"}
EntryNames == Names \cup Special

\* fserrors
OK == "ok"
EExist == "EExist"
ENoEnt == "ENoEnt"
EIsDir == "EIsDir"
ENotDir == "ENotDir"
EInval == "EInval"
ENotEmpty == "ENotEmpty"
ENoSpace == "ENoSpace"
\* an error made with fmt.Errorf, wrapping none of the fserrors kinds
EPlain == "EPlain"
\* io.EOF
EOF == "EOF"

\* ------------------------------------------------------- bytes and integers
Bytes == 0 .. MaxByte

RECURSIVE Pow2(_)
Pow2(n) == IF n = 0 THEN 1 ELSE 2 * Pow2(n - 1)

\* math.MaxInt64, math.MinInt64 and math.MaxInt32 at the model's width
MaxInt64 == Pow2(Int64Bits - 1) - 1
MinInt64 == 0 - Pow2(Int64Bits - 1)
MaxInt32 == Pow2((Int64Bits \div 2) - 1) - 1

\* x as a signed integer type whose largest value is max holds it: Go's
\* integer arithmetic and conversions wrap around
Wrap(x, max) == ((x + max + 1) % (2 * (max + 1))) - (max + 1)

Max(a, b) == IF a > b THEN a ELSE b
Min(a, b) == IF a < b THEN a ELSE b

\* a []byte argument: nil, or a slice with the bytes b
NilBuffer == [nil |-> TRUE, b |-> <<>>]
Buffer(b) == [nil |-> FALSE, b |-> b]

\* the byte sequences of length at most n
SeqsUpTo(n) == UNION {[1 .. k -> Bytes] : k \in 0 .. n}

VARIABLES
    kind,       \* kind[i]: "free" (not allocated yet), "dir" or "file"
    contents,   \* contents[i][e]: the inode bound to entry e of directory i, or NoInode
    deleted,    \* deleted[i]: DirectoryInode.deleted
    wmu,        \* wmu[i]: the thread that has called rwMutex.Lock() and not yet Unlock()
    wact,       \* wact[i]: that writer has passed the wait for the readers to leave
    readers,    \* readers[i][t]: number of read locks thread t holds on i
    pc,         \* pc[t]: where thread t is in its current call
    fr,         \* fr[t]: the arguments and locals of thread t's current call
    ret,        \* ret[t]: the last call thread t completed, with its result
    snap,       \* snap[t]: the tree as it was when thread t's current call began
    wins,       \* the successful insertions so far: [t, op, dir, name, inode]
    recording,  \* whether ret, snap and wins are recorded in this specification
    calls,      \* the number of calls that may still begin
    data,       \* data[i]: FileInode.data of file i, a sequence of bytes
    cap,        \* cap[i]: the capacity of the slice FileInode.data of file i
    io,         \* io[t]: offset, buffer and byte count of thread t's last ReadAt or WriteAt
    maxInt,     \* math.MaxInt of the build: int has 32 or 64 bits
    handle,     \* handle[t]: the file thread t has open: inode, offset and open mode
    text,       \* text[t]: the path given to thread t's last call on a path, and
                \* the path that call returned
    visited,    \* visited[t]: the calls of the WalkFunc in thread t's last Walk
    prev        \* prev.ret[t], prev.snap[t]: ret[t] and snap[t] as they were when
                \* thread t's current (or last) call began; kept when prev.on

tree == <<kind, contents, deleted>>
locks == <<wmu, wact, readers>>
opened == <<handle, text, visited>>
files == <<data, cap, io, maxInt, handle, text, visited>>
vars == <<kind, contents, deleted, wmu, wact, readers, pc, fr, ret, snap, wins, recording,
          calls, data, cap, io, maxInt, handle, text, visited, prev>>

\* ------------------------------------------------------------ tree helpers
EmptyTable == [e \in EntryNames |-> NoInode]

\* NewDirectoryInode(parent): "." is the new inode, ".." the parent
NewDirectoryInode(self, parent) ==
    [e \in EntryNames |->
        IF e = SelfDirectoryEntry THEN self
        ELSE IF e = ParentDirectoryEntry THEN parent
        ELSE NoInode]

Exists(c, i, e) == c[i][e] # NoInode

\* the entries of i other than "." and ".."
Entries(c, i) == {e \in Names : c[i][e] # NoInode}

IsDirectory(i) == kind[i] = "dir"
IsFile(i) == kind[i] = "file"

FreeInodes == {i \in Inodes : kind[i] = "free"}
\* the inode a constructor returns: never one that is or was in use
Fresh == CHOOSE i \in FreeInodes : \A j \in FreeInodes : i <= j

Dirs == {i \in Inodes : kind[i] = "dir"}

\* ------------------------------------------------------------ lock helpers
NoReaders(i) == \A u \in Threads : readers[i][u] = 0

\* rwMutex.RLock() returns at once iff no writer has called Lock()
CanRLock(i) == wmu[i] = NoThread

\* rwMutex.Lock() first excludes the other writers and the new readers
CanAnnounce(i) == wmu[i] = NoThread

Announce(l, t, i) == [l EXCEPT !.w[i] = t]
Acquire(l, i) == [l EXCEPT !.a[i] = TRUE]
Unlock(l, i) == [l EXCEPT !.w[i] = NoThread, !.a[i] = FALSE]
RLock(l, t, i) == [l EXCEPT !.r[i][t] = @ + 1]
RUnlock(l, t, i) == [l EXCEPT !.r[i][t] = @ - 1]

L == [w |-> wmu, a |-> wact, r |-> readers]
SetLocks(l) == wmu' = l.w /\ wact' = l.a /\ readers' = l.r

\* ------------------------------------------------------------ call frames
IdleFrame ==
    [op |-> "none", a |-> NoInode, b |-> NoInode, src |-> "", dst |-> "",
     sMust |-> FALSE, dMust |-> FALSE, x |-> NoInode, m |-> NoInode,
     flag |-> FALSE, path |-> <<>>, off |-> 0, p |-> NilBuffer, buf |-> <<>>]

\* what handle[t] holds while thread t has no file open
NoHandle == [ino |-> NoInode, offset |-> 0, mode |-> 0]

\* what text[t] holds before thread t's first call on a path
NoText == [in |-> <<>>, out |-> <<>>]

\* what io[t] holds before thread t's first ReadAt or WriteAt
NoIO == [off |-> 0, p |-> NilBuffer, n |-> 0, out |-> <<>>]

NoRet ==
    [op |-> "none", a |-> NoInode, b |-> NoInode, src |-> "", dst |-> "",
     sMust |-> FALSE, dMust |-> FALSE, flag |-> FALSE,
     err |-> OK, val |-> NoInode, path |-> <<>>, list |-> {}]

\* what a call returns besides its error: an inode, a path, a listing
Out(val, path, list) == [val |-> val, path |-> path, list |-> list]
NoOut == Out(NoInode, <<>>, {})

Result(f, err, out) ==
    [op |-> f.op, a |-> f.a, b |-> f.b, src |-> f.src, dst |-> f.dst,
     sMust |-> f.sMust, dMust |-> f.dMust, flag |-> f.flag,
     err |-> err, val |-> out.val, path |-> out.path, list |-> out.list]

Snapshot == [c |-> contents, d |-> deleted, k |-> kind, b |-> data, h |-> handle]
NoSnapshot == [c |-> [i \in Inodes |-> EmptyTable], d |-> [i \in Inodes |-> FALSE],
               k |-> [i \in Inodes |-> "free"], b |-> [i \in Inodes |-> <<>>],
               h |-> [t \in Threads |-> NoHandle]]

\* the record of the calls before the last, empty; on says whether it is kept
NoPrev(on) ==
    [on |-> on, ret |-> [t \in Threads |-> NoRet], snap |-> [t \in Threads |-> NoSnapshot]]

\* snap[t] is taken by the first step of a call, and what ret[t] and snap[t]
\* said of the call before goes to prev
SnapStep(t) ==
    /\ snap' = IF recording /\ pc[t] = "idle" THEN [snap EXCEPT ![t] = Snapshot] ELSE snap
    /\ calls' = IF pc[t] = "idle" THEN calls - 1 ELSE calls
    /\ prev' = IF prev.on /\ pc[t] = "idle"
                 THEN [prev EXCEPT !.ret[t] = ret[t], !.snap[t] = snap[t]]
                 ELSE prev

\* thread t is between two calls and may begin one
Idle(t) == pc[t] = "idle" /\ calls > 0

\* thread t goes on to pc p with frame f
Goto(t, p, f) ==
    /\ pc' = [pc EXCEPT ![t] = p]
    /\ fr' = [fr EXCEPT ![t] = f]
    /\ SnapStep(t)
    /\ UNCHANGED <<ret, wins, recording>>

\* thread t's call with frame f returns err and out
Return(t, f, err, out) ==
    /\ pc' = [pc EXCEPT ![t] = "idle"]
    /\ fr' = [fr EXCEPT ![t] = IdleFrame]
    /\ ret' = IF recording THEN [ret EXCEPT ![t] = Result(f, err, out)] ELSE ret
    /\ SnapStep(t)
    /\ UNCHANGED <<wins, recording>>

\* as Return, for an insertion that succeeded with the new inode val
ReturnInserted(t, f, val) ==
    /\ pc' = [pc EXCEPT ![t] = "idle"]
    /\ fr' = [fr EXCEPT ![t] = IdleFrame]
    /\ ret' = IF recording
                THEN [ret EXCEPT ![t] = Result(f, OK, Out(val, <<>>, {}))] ELSE ret
    /\ SnapStep(t)
    /\ wins' = IF recording
                 THEN wins \cup {[t |-> t, op |-> f.op, dir |-> f.a, name |-> f.src,
                                  inode |-> val]}
                 ELSE wins
    /\ UNCHANGED recording

Call(op, a, b, src, dst) ==
    [IdleFrame EXCEPT !.op = op, !.a = a, !.b = b, !.src = src, !.dst = dst]

\* ------------------------------------------------------------------- Init
\* no lock is held and no call has been made
InitCallers ==
    /\ wmu = [i \in Inodes |-> NoThread]
    /\ wact = [i \in Inodes |-> FALSE]
    /\ readers = [i \in Inodes |-> [t \in Threads |-> 0]]
    /\ pc = [t \in Threads |-> "idle"]
    /\ fr = [t \in Threads |-> IdleFrame]
    /\ ret = [t \in Threads |-> NoRet]
    /\ snap = [t \in Threads |-> NoSnapshot]
    /\ wins = {}
    /\ io = [t \in Threads |-> NoIO]
    /\ handle = [t \in Threads |-> NoHandle]
    /\ text = [t \in Threads |-> NoText]
    /\ visited = [t \in Threads |-> <<>>]

InitTree ==
    /\ InitCallers
    /\ kind = [i \in Inodes |-> IF i = Root THEN "dir" ELSE "free"]
    /\ contents = [i \in Inodes |->
                     IF i = Root THEN NewDirectoryInode(Root, Root) ELSE EmptyTable]
    /\ deleted = [i \in Inodes |-> FALSE]
    /\ data = [i \in Inodes |-> <<>>]
    /\ cap = [i \in Inodes |-> 0]

Init ==
    /\ InitTree /\ maxInt = MaxInt64
    /\ recording = FALSE /\ calls = MaxCalls /\ prev = NoPrev(FALSE)

\* ------------------------------------------------- taking the write lock
\* i.rwMutex.Lock() excludes the other writers and the new readers at once;
\* with no reader inside, the caller then has the lock
LockNow(t, i) == Acquire(Announce(L, t, i), i)

\* with a reader inside, the caller waits in waitPc for the readers to leave
LockWait(t, i, f, waitPc) ==
    /\ UNCHANGED tree
    /\ SetLocks(Announce(L, t, i))
    /\ Goto(t, waitPc, f)

\* the end of that wait
LockWaited(i) == Acquire(L, i)

\* the calls that wait with a constructor still to run
AllocWaiting == {u \in Threads : pc[u] \in {"ad_w", "cf_w"}}
\* the inode pool is bounded: a call that may allocate starts only when an
\* inode is left for it
HasRoom(t) == Cardinality(FreeInodes) > Cardinality(AllocWaiting \ {t})

\* ------------------------------------------------------------ AddDirectory
\* as AddDirectoryErr, without the check for an entry of that name
AddDirectoryErrAnyName(i, name) ==
    IF deleted[i] THEN ENoEnt ELSE OK

\* as AddDirectoryErr, without the check of the deleted flag
AddDirectoryErrAnyParent(i, name) ==
    IF Exists(contents, i, name) THEN EExist ELSE OK

AddDirectoryErr(i, name) ==
    IF deleted[i] THEN ENoEnt
    ELSE IF Exists(contents, i, name) THEN EExist
    ELSE OK

\* lines 110-120, with the write lock on f.a held in l
AddDirectoryLocked(t, f, l) ==
    LET i == f.a
        err == AddDirectoryErr(i, f.src)
        n == Fresh
    IN  /\ SetLocks(Unlock(l, i))
        /\ IF err # OK
           THEN UNCHANGED tree /\ Return(t, f, err, NoOut)
           ELSE /\ kind' = [kind EXCEPT ![n] = "dir"]
                /\ contents' = [contents EXCEPT ![i][f.src] = n,
                                                ![n] = NewDirectoryInode(n, i)]
                /\ UNCHANGED deleted
                /\ ReturnInserted(t, f, n)

AddDirectory(t) ==
    /\ UNCHANGED files
    /\ pc[t] \in {"idle", "ad_w"}
    /\ \/ /\ Idle(t)
          /\ HasRoom(t)
          /\ \E i \in Dirs, name \in EntryNames :
                LET f == Call("AddDirectory", i, NoInode, name, "")
                IN  (/\ CanAnnounce(i)
                     /\ IF NoReaders(i)
                           THEN AddDirectoryLocked(t, f, LockNow(t, i))
                           ELSE LockWait(t, i, f, "ad_w"))
       \/ /\ pc[t] = "ad_w"
          /\ NoReaders(fr[t].a) /\ AddDirectoryLocked(t, fr[t], LockWaited(fr[t].a))

\* ---------------------------------------------------- CreateFileInodeEntry
\* the error of CreateFileInodeEntry(entry, errOnExist), OK when it returns a file
CreateFileErr(i, entry, errOnExist) ==
    IF Exists(contents, i, entry)
    THEN IF errOnExist THEN EExist
         ELSE IF IsFile(contents[i][entry]) THEN OK ELSE EIsDir
    ELSE IF deleted[i] THEN ENoEnt ELSE OK

\* lines 207-230, with the write lock on f.a held in l
CreateFileLocked(t, f, l) ==
    LET i == f.a
        err == CreateFileErr(i, f.src, f.flag)
        n == Fresh
    IN  /\ SetLocks(Unlock(l, i))
        /\ IF err # OK
           THEN UNCHANGED tree /\ Return(t, f, err, NoOut)
           ELSE IF Exists(contents, i, f.src)
           THEN UNCHANGED tree /\ Return(t, f, OK, Out(contents[i][f.src], <<>>, {}))
           ELSE /\ kind' = [kind EXCEPT ![n] = "file"]
                /\ contents' = [contents EXCEPT ![i][f.src] = n]
                /\ UNCHANGED deleted
                /\ ReturnInserted(t, f, n)

CreateFileInodeEntryWith(t, Flags) ==
    /\ UNCHANGED files
    /\ pc[t] \in {"idle", "cf_w"}
    /\ \/ /\ Idle(t)
          /\ HasRoom(t)
          /\ \E i \in Dirs, entry \in EntryNames, errOnExist \in Flags :
                LET f == [Call("CreateFileInodeEntry", i, NoInode, entry, "")
                             EXCEPT !.flag = errOnExist]
                IN  (/\ CanAnnounce(i)
                     /\ IF NoReaders(i)
                           THEN CreateFileLocked(t, f, LockNow(t, i))
                           ELSE LockWait(t, i, f, "cf_w"))
       \/ /\ pc[t] = "cf_w"
          /\ NoReaders(fr[t].a) /\ CreateFileLocked(t, fr[t], LockWaited(fr[t].a))

CreateFileInodeEntry(t) == CreateFileInodeEntryWith(t, BOOLEAN)

\* CreateFileInodeEntry(entry, true)
CreateFileExclusive(t) == CreateFileInodeEntryWith(t, {TRUE})

\* -------------------------------------------------------------- DeleteFile
DeleteFileErr(c, i, entry) ==
    IF ~Exists(c, i, entry) THEN ENoEnt
    ELSE IF ~IsFile(c[i][entry]) THEN EIsDir
    ELSE OK

\* as DeleteFileLocked, but the entry stays in the table
DeleteFileKeepsEntry(t, f, l) ==
    /\ SetLocks(Unlock(l, f.a))
    /\ UNCHANGED tree
    /\ Return(t, f, DeleteFileErr(contents, f.a, f.src), NoOut)

\* doDeleteFile under the write lock on f.a held in l
DeleteFileLocked(t, f, l) ==
    LET i == f.a
        err == DeleteFileErr(contents, i, f.src)
    IN  /\ SetLocks(Unlock(l, i))
        /\ IF err # OK
           THEN UNCHANGED tree /\ Return(t, f, err, NoOut)
           ELSE /\ contents' = [contents EXCEPT ![i][f.src] = NoInode]
                /\ UNCHANGED <<kind, deleted>>
                /\ Return(t, f, OK, NoOut)

DeleteFile(t) ==
    /\ UNCHANGED files
    /\ pc[t] \in {"idle", "df_w"}
    /\ \/ /\ Idle(t)
          /\ \E i \in Dirs, entry \in EntryNames :
                LET f == Call("DeleteFile", i, NoInode, entry, "")
                IN  (/\ CanAnnounce(i)
                     /\ IF NoReaders(i)
                           THEN DeleteFileLocked(t, f, LockNow(t, i))
                           ELSE LockWait(t, i, f, "df_w"))
       \/ /\ pc[t] = "df_w"
          /\ NoReaders(fr[t].a) /\ DeleteFileLocked(t, fr[t], LockWaited(fr[t].a))

\* ------------------------------------------------------------ InodeEntries
Listing(i) == {<<e, kind[contents[i][e]]>> : e \in Entries(contents, i)}

InodeEntries(t) ==
    /\ UNCHANGED files
    /\ Idle(t)
    /\ \E i \in Dirs :
        /\ CanRLock(i)
        /\ UNCHANGED tree
        /\ UNCHANGED locks
        /\ Return(t, Call("InodeEntries", i, NoInode, "", ""), OK,
                  Out(NoInode, <<>>, Listing(i)))

\* ----------------------------------------------------- DirectoryInodeEntry
\* getInodeEntry(entry, nil, nil) and the cast to *DirectoryInode
DirectoryEntryErr(i, entry) ==
    IF ~Exists(contents, i, entry) THEN ENoEnt
    ELSE IF ~IsDirectory(contents[i][entry]) THEN ENotDir
    ELSE OK

\* lines 163-172: with the read lock on i, up to the call of isDeleted()
\* lines 175-178: isDeleted() takes the read lock of the entry's directory
DirectoryInodeEntry(t) ==
    /\ UNCHANGED files
    /\ pc[t] \in {"idle", "de_child"}
    /\ UNCHANGED tree
    /\ \/ /\ Idle(t)
          /\ \E i \in Dirs, entry \in EntryNames :
                LET f == Call("DirectoryInodeEntry", i, NoInode, entry, "")
                    err == DirectoryEntryErr(i, entry)
                IN  /\ CanRLock(i)
                    /\ IF err # OK
                       THEN UNCHANGED locks /\ Return(t, f, err, NoOut)
                       ELSE /\ SetLocks(RLock(L, t, i))
                            /\ Goto(t, "de_child", [f EXCEPT !.x = contents[i][entry]])
       \/ /\ pc[t] = "de_child"
          /\ CanRLock(fr[t].x)
          /\ SetLocks(RUnlock(L, t, fr[t].a))
          /\ IF deleted[fr[t].x]
             THEN Return(t, fr[t], ENoEnt, NoOut)
             ELSE Return(t, fr[t], OK, Out(fr[t].x, <<>>, {}))

\* as DeleteErr, but a directory that has entries is deleted like an empty one
DeleteErrAnyEntries(c, d, i) == OK

\* ---------------------------------------------------------------- delete
\* DirectoryInode.delete() under the write lock of i: nil for a directory that
\* is already deleted, ENotEmpty for one that has an entry, else it marks i
DeleteErr(c, d, i) ==
    IF d[i] THEN OK
    ELSE IF Entries(c, i) # {} THEN ENotEmpty
    ELSE OK

\* --------------------------------------------------------- DeleteDirectory
\* doDeleteDirectory lines 317-329: the checks made before the child is locked
DeleteDirectoryErr(c, i, entry) ==
    IF entry \in Special THEN EInval
    ELSE IF ~Exists(c, i, entry) THEN ENoEnt
    ELSE IF ~IsDirectory(c[i][entry]) THEN ENotDir
    ELSE OK

\* DeleteDirectory lines 340-342 and doDeleteDirectory lines 317-330, with the
\* write lock on f.a held in l
DeleteDirectoryLocked(t, f, l) ==
    LET i == f.a
        err == DeleteDirectoryErr(contents, i, f.src)
    IN  /\ UNCHANGED tree
        /\ IF err # OK
           THEN SetLocks(Unlock(l, i)) /\ Return(t, f, err, NoOut)
           ELSE SetLocks(l) /\ Goto(t, "dd_child", [f EXCEPT !.x = contents[i][f.src]])

\* as DeleteChildLocked, but the directory removed is not marked deleted
DeleteChildUnmarked(t, f, l) ==
    LET i == f.a
        x == f.x
        err == DeleteErr(contents, deleted, x)
    IN  /\ SetLocks(Unlock(Unlock(l, x), i))
        /\ IF err # OK
           THEN UNCHANGED tree /\ Return(t, f, err, NoOut)
           ELSE /\ contents' = [contents EXCEPT ![i][f.src] = NoInode]
                /\ UNCHANGED <<kind, deleted>>
                /\ Return(t, f, OK, NoOut)

\* dirInode.delete() lines 287-302 and doDeleteDirectory lines 331-336, with the
\* write locks on f.a and on the child f.x held in l
DeleteChildLocked(t, f, l) ==
    LET i == f.a
        x == f.x
        err == DeleteErr(contents, deleted, x)
    IN  /\ SetLocks(Unlock(Unlock(l, x), i))
        /\ IF err # OK
           THEN UNCHANGED tree /\ Return(t, f, err, NoOut)
           ELSE /\ deleted' = [deleted EXCEPT ![x] = TRUE]
                /\ contents' = [contents EXCEPT ![i][f.src] = NoInode]
                /\ UNCHANGED kind
                /\ Return(t, f, OK, NoOut)

DeleteDirectory(t) ==
    /\ UNCHANGED files
    /\ pc[t] \in {"idle", "dd_w", "dd_child", "dd_child_w"}
    /\ \/ /\ Idle(t)
          /\ \E i \in Dirs, entry \in EntryNames :
                LET f == Call("DeleteDirectory", i, NoInode, entry, "")
                IN  (/\ CanAnnounce(i)
                     /\ IF NoReaders(i)
                           THEN DeleteDirectoryLocked(t, f, LockNow(t, i))
                           ELSE LockWait(t, i, f, "dd_w"))
       \/ /\ pc[t] = "dd_w"
          /\ NoReaders(fr[t].a) /\ DeleteDirectoryLocked(t, fr[t], LockWaited(fr[t].a))
       \/ /\ pc[t] = "dd_child"
          /\ (/\ CanAnnounce(fr[t].x)
              /\ IF NoReaders(fr[t].x)
                    THEN DeleteChildLocked(t, fr[t], LockNow(t, fr[t].x))
                    ELSE LockWait(t, fr[t].x, fr[t], "dd_child_w"))
       \/ /\ pc[t] = "dd_child_w"
          /\ NoReaders(fr[t].x) /\ DeleteChildLocked(t, fr[t], LockWaited(fr[t].x))

\* ------------------------------------------------------- ReversePathLookup
MaxPath == 3

\* as ReverseLookupEntry, but the name of any directory that i lists
ReverseLookupAnyEntry(i, child) ==
    {e \in Names : contents[i][e] # NoInode /\ IsDirectory(contents[i][e])}

\* ReverseLookupEntry(child): the names under which i lists the directory child
ReverseLookupEntry(i, child) ==
    {e \in Names : contents[i][e] = child /\ IsDirectory(contents[i][e])}

\* directory.ReversePathLookup: fr.x is currentDirInode, fr.m parentDirInode.
\*   rp_isroot   IsRootDirectoryInode() takes the read lock of x (line 94)
\*   rp_isroot2  and calls Parent(), which takes it again (lines 96, 56)
\*   rp_parent   Parent() (directory.go line 126)
\*   rp_rev      parentDirInode.ReverseLookupEntry(currentDirInode)
ReversePathLookup(t) ==
    /\ UNCHANGED files
    /\ pc[t] \in {"idle", "rp_isroot", "rp_isroot2", "rp_parent", "rp_rev"}
    /\ UNCHANGED tree
    /\ \/ /\ Idle(t)
          /\ \E i \in Dirs :
                /\ CanRLock(i)
                /\ SetLocks(RLock(L, t, i))
                /\ Goto(t, "rp_isroot2",
                        [Call("ReversePathLookup", i, NoInode, "", "") EXCEPT !.x = i])
       \/ /\ pc[t] = "rp_isroot"
          /\ CanRLock(fr[t].x)
          /\ SetLocks(RLock(L, t, fr[t].x))
          /\ Goto(t, "rp_isroot2", fr[t])
       \/ /\ pc[t] = "rp_isroot2"
          /\ CanRLock(fr[t].x)
          /\ SetLocks(RUnlock(L, t, fr[t].x))
          /\ IF contents[fr[t].x][ParentDirectoryEntry] = fr[t].x
             THEN Return(t, fr[t], OK, Out(NoInode, fr[t].path, {}))
             ELSE Goto(t, "rp_parent", fr[t])
       \/ /\ pc[t] = "rp_parent"
          /\ CanRLock(fr[t].x)
          /\ UNCHANGED locks
          /\ Goto(t, "rp_rev", [fr[t] EXCEPT !.m = contents[fr[t].x][ParentDirectoryEntry]])
       \/ /\ pc[t] = "rp_rev"
          /\ CanRLock(fr[t].m)
          /\ UNCHANGED locks
          /\ IF ReverseLookupEntry(fr[t].m, fr[t].x) = {}
             THEN Return(t, fr[t], ENoEnt, NoOut)
             ELSE /\ Len(fr[t].path) < MaxPath
                  /\ \E e \in ReverseLookupEntry(fr[t].m, fr[t].x) :
                        Goto(t, "rp_isroot",
                             [fr[t] EXCEPT !.path = <<e>> \o @, !.x = fr[t].m,
                                           !.m = NoInode])

\* --------------------------------------------------- MoveEntry, renameEntry
\* fr.a is srcParentInode, fr.b dstParentInode (equal in renameEntry), fr.m the
\* inode that moves, fr.x the inode dst.Entry names before the move.
\*   mv_src_w   waiting for the write lock of srcParentInode (line 397)
\*   mv_dst     about to lock dstParentInode (line 399)
\*   rn_w       renameEntry waiting for the write lock of i (line 443)
\*   mv_old     doDeleteDirectory: dirInode.delete() locks the old directory
\*   mv_put     i.contents[entry] = newEntry
\*   mv_setp    newEntry.SetParent(i) locks the directory that moves
\*   mv_rm      delete(srcParentInode.contents, src.Entry) and the return

\* the locks MoveEntry holds on the two parents while it changes their tables
MoveLocks(f) == {f.a, f.b}

UnlockAll(l, S) ==
    [l EXCEPT !.w = [i \in Inodes |-> IF i \in S THEN NoThread ELSE l.w[i]],
              !.a = [i \in Inodes |-> IF i \in S THEN FALSE ELSE l.a[i]]]

\* the call MoveEntry(sp, dp, src, dst): s and d are src.Entry and dst.Entry,
\* sMust and dMust are src.MustBeDir and dst.MustBeDir
MoveFrame(sp, dp, s, d, sMust, dMust) ==
    [Call("MoveEntry", sp, dp, s, d) EXCEPT !.sMust = sMust, !.dMust = dMust]

\* as MoveArgsErr, but only the source entry is checked
MoveArgsErrSourceOnly(f) ==
    IF f.src \in Special THEN EInval ELSE OK

\* MoveEntry lines 381-387: "." and ".." are neither moved nor overwritten
MoveArgsErr(f) ==
    IF f.src \in Special \/ f.dst \in Special THEN EInval ELSE OK

\* as SameEntry, but no rename is taken for one onto the same entry
NeverSameEntry(f) == FALSE

\* MoveEntry line 394 and renameEntry lines 440-442: source and destination are
\* the same entry of the same directory
SameEntry(f) == f.a = f.b /\ f.src = f.dst

\* MustBeDir is read at lines 410 and 414 (454 and 458) only: the calls that
\* return before are made with paths that have no trailing separator
NoMustBeDir(f) == ~f.sMust /\ ~f.dMust

\* MoveEntry lines 402-417, the checks made with both parents locked
MoveErr(f) ==
    IF deleted[f.b] THEN ENoEnt
    ELSE IF ~Exists(contents, f.a, f.src) THEN ENoEnt
    ELSE IF IsFile(contents[f.a][f.src]) /\ f.sMust THEN ENotDir
    ELSE IF IsFile(contents[f.a][f.src]) /\ f.dMust THEN ENotDir
    ELSE OK

\* renameEntry lines 446-461, the checks made with i locked
RenameErr(f) ==
    IF deleted[f.a] THEN ENoEnt
    ELSE IF ~Exists(contents, f.a, f.src) THEN EPlain
    ELSE IF IsFile(contents[f.a][f.src]) /\ f.sMust THEN ENotDir
    ELSE IF IsFile(contents[f.a][f.src]) /\ f.dMust THEN ENotDir
    ELSE OK

\* as SetParent, but the parent pointer of the inserted directory is left as it was
KeepParent(c, m, i) == c

\* the parent ".." of a directory that has been inserted into directory i
SetParent(c, m, i) == [c EXCEPT ![m][ParentDirectoryEntry] = i]

\* as InsertStart, but the source is not put under the destination
InsertStartDropsSource(t, f, l) ==
    /\ SetLocks(l)
    /\ UNCHANGED tree
    /\ Goto(t, "mv_rm", [f EXCEPT !.m = contents[f.a][f.src],
                                  !.x = contents[f.b][f.dst]])

\* doInsertFileInode / doInsertDirectoryInode up to their first lock: an old
\* file is removed (doDeleteFile), an old directory has to be locked first
InsertStart(t, f, l) ==
    LET m == contents[f.a][f.src]
        g == [f EXCEPT !.m = m, !.x = contents[f.b][f.dst]]
    IN  /\ SetLocks(l)
        /\ UNCHANGED <<kind, deleted>>
        /\ IF ~Exists(contents, f.b, f.dst)
           THEN UNCHANGED contents /\ Goto(t, "mv_put", g)
           ELSE IF IsFile(contents[f.b][f.dst])
           THEN /\ contents' = [contents EXCEPT ![f.b][f.dst] = NoInode]
                /\ Goto(t, "mv_put", g)
           ELSE UNCHANGED contents /\ Goto(t, "mv_old", g)

\* with both parents locked in l
MoveLocked(t, f, l) ==
    IF MoveErr(f) # OK
    THEN /\ UNCHANGED tree
         /\ SetLocks(UnlockAll(l, MoveLocks(f)))
         /\ Return(t, f, MoveErr(f), NoOut)
    ELSE InsertStart(t, f, l)

\* with the one parent locked in l
RenameLocked(t, f, l) ==
    IF RenameErr(f) # OK
    THEN /\ UNCHANGED tree
         /\ SetLocks(UnlockAll(l, MoveLocks(f)))
         /\ Return(t, f, RenameErr(f), NoOut)
    ELSE InsertStart(t, f, l)

\* as MoveSrcLocked, but the lock of srcParentInode is released before the
\* lock of dstParentInode is asked for
MoveSrcReleased(t, f, l) ==
    /\ UNCHANGED tree
    /\ SetLocks(Unlock(l, f.a))
    /\ Goto(t, "mv_dst", f)

\* with srcParentInode locked in l
MoveSrcLocked(t, f, l) ==
    /\ UNCHANGED tree
    /\ SetLocks(l)
    /\ Goto(t, "mv_dst", f)

\* doDeleteDirectory lines 331-336 inside the insert, with the old directory
\* f.x locked in l besides the parents
MoveOldLocked(t, f, l) ==
    LET err == DeleteErr(contents, deleted, f.x)
    IN  IF err # OK
        THEN /\ UNCHANGED tree
             /\ SetLocks(UnlockAll(l, MoveLocks(f) \cup {f.x}))
             /\ Return(t, f, err, NoOut)
        ELSE /\ deleted' = [deleted EXCEPT ![f.x] = TRUE]
             /\ contents' = [contents EXCEPT ![f.b][f.dst] = NoInode]
             /\ UNCHANGED kind
             /\ SetLocks(Unlock(l, f.x))
             /\ Goto(t, "mv_put", f)

\* SetParent lines 372-374, with the moved directory f.m locked in l
MoveSetParentLocked(t, f, l) ==
    /\ contents' = SetParent(contents, f.m, f.b)
    /\ UNCHANGED <<kind, deleted>>
    /\ SetLocks(Unlock(l, f.m))
    /\ Goto(t, "mv_rm", f)

MoveEntryWith(t, Must) ==
    /\ UNCHANGED files
    /\ pc[t] \in {"idle", "mv_src_w", "mv_dst", "mv_dst_w", "rn_w", "mv_old",
                  "mv_old_w", "mv_put", "mv_setp", "mv_setp_w", "mv_rm"}
    /\ \/ /\ Idle(t)
          /\ \E sp \in Dirs, dp \in Dirs, s \in EntryNames, d \in EntryNames,
                sMust \in Must, dMust \in Must :
                LET f == MoveFrame(sp, dp, s, d, sMust, dMust)
                IN  IF MoveArgsErr(f) # OK
                    THEN /\ NoMustBeDir(f)
                         /\ UNCHANGED tree /\ UNCHANGED locks
                         /\ Return(t, f, MoveArgsErr(f), NoOut)
                    ELSE IF SameEntry(f)
                    THEN /\ NoMustBeDir(f)
                         /\ UNCHANGED tree /\ UNCHANGED locks
                         /\ Return(t, f, OK, NoOut)
                    ELSE IF sp = dp
                    THEN (/\ CanAnnounce(sp)
                          /\ IF NoReaders(sp)
                                THEN RenameLocked(t, f, LockNow(t, sp))
                                ELSE LockWait(t, sp, f, "rn_w"))
                    ELSE (/\ CanAnnounce(sp)
                          /\ IF NoReaders(sp)
                                THEN MoveSrcLocked(t, f, LockNow(t, sp))
                                ELSE LockWait(t, sp, f, "mv_src_w"))
       \/ /\ pc[t] = "rn_w"
          /\ NoReaders(fr[t].a) /\ RenameLocked(t, fr[t], LockWaited(fr[t].a))
       \/ /\ pc[t] = "mv_src_w"
          /\ NoReaders(fr[t].a) /\ MoveSrcLocked(t, fr[t], LockWaited(fr[t].a))
       \/ /\ pc[t] = "mv_dst"
          /\ (/\ CanAnnounce(fr[t].b)
              /\ IF NoReaders(fr[t].b)
                    THEN MoveLocked(t, fr[t], LockNow(t, fr[t].b))
                    ELSE LockWait(t, fr[t].b, fr[t], "mv_dst_w"))
       \/ /\ pc[t] = "mv_dst_w"
          /\ NoReaders(fr[t].b) /\ MoveLocked(t, fr[t], LockWaited(fr[t].b))
       \/ /\ pc[t] = "mv_old"
          /\ (/\ CanAnnounce(fr[t].x)
              /\ IF NoReaders(fr[t].x)
                    THEN MoveOldLocked(t, fr[t], LockNow(t, fr[t].x))
                    ELSE LockWait(t, fr[t].x, fr[t], "mv_old_w"))
       \/ /\ pc[t] = "mv_old_w"
          /\ NoReaders(fr[t].x) /\ MoveOldLocked(t, fr[t], LockWaited(fr[t].x))
       \/ /\ pc[t] = "mv_put"
          /\ contents' = [contents EXCEPT ![fr[t].b][fr[t].dst] = fr[t].m]
          /\ UNCHANGED <<kind, deleted>>
          /\ UNCHANGED locks
          /\ Goto(t, IF IsFile(fr[t].m) THEN "mv_rm" ELSE "mv_setp", fr[t])
       \/ /\ pc[t] = "mv_setp"
          /\ (/\ CanAnnounce(fr[t].m)
              /\ IF NoReaders(fr[t].m)
                    THEN MoveSetParentLocked(t, fr[t], LockNow(t, fr[t].m))
                    ELSE LockWait(t, fr[t].m, fr[t], "mv_setp_w"))
       \/ /\ pc[t] = "mv_setp_w"
          /\ NoReaders(fr[t].m) /\ MoveSetParentLocked(t, fr[t], LockWaited(fr[t].m))
       \/ /\ pc[t] = "mv_rm"
          /\ contents' = [contents EXCEPT ![fr[t].a][fr[t].src] = NoInode]
          /\ UNCHANGED <<kind, deleted>>
          /\ SetLocks(UnlockAll(L, MoveLocks(fr[t])))
          /\ Return(t, fr[t], OK, NoOut)

\* what the checks of MoveEntry and renameEntry answer for call f in the present
\* tree: the error the call returns, or OK when it returns nil or goes on to
\* insert the source
MoveChecksErr(f) ==
    IF MoveArgsErr(f) # OK THEN MoveArgsErr(f)
    ELSE IF SameEntry(f) THEN OK
    ELSE IF f.a = f.b THEN RenameErr(f)
    ELSE MoveErr(f)

\* MoveEntry for paths without a trailing separator (MustBeDir false)
MoveEntry(t) == MoveEntryWith(t, {FALSE})

\* MoveEntry for every PathInfo
MoveEntryAnyPath(t) == MoveEntryWith(t, BOOLEAN)

\* ---------------------------------------------------------------- FileInode
\* ReadAt takes and releases the read lock of the file within one step;
\* WriteAt holds the write lock from the append to the copy.
FileInodes == {i \in Inodes : kind[i] = "file"}

\* the outcome of a slice expression that is out of range: a run-time panic
Panic == "panic"

\* s[lo:hi] is in range for a slice s of capacity c
SliceInRange(lo, hi, c) == 0 <= lo /\ lo <= hi /\ hi <= c

\* copy(dst, src): dst after the call
Copy(dst, src) ==
    [j \in 1 .. Len(dst) |-> IF j <= Len(src) THEN src[j] ELSE dst[j]]

\* what ReadAt and WriteAt return, and the bytes they leave: in the buffer for
\* ReadAt, in the file for WriteAt
IOResult(err, n, bytes) == [err |-> err, n |-> n, bytes |-> bytes]

\* ReadAt lines 57-84 on a file with the data d in a slice of capacity c
ReadAtResult(d, c, p, off) ==
    IF p.nil THEN IOResult(EInval, 0, p.b)
    ELSE IF off < 0 THEN IOResult(EInval, 0, p.b)
    ELSE IF off > maxInt THEN IOResult(EOF, 0, p.b)
    ELSE LET intOff == Wrap(off, maxInt)
             bytesAfterOffset == Max(Len(d) - intOff, 0)
             numBytesRequested == Len(p.b)
             numBytesToRead == Min(bytesAfterOffset, numBytesRequested)
         IN  IF ~SliceInRange(intOff, intOff + numBytesToRead, c)
             THEN IOResult(Panic, 0, p.b)
             ELSE IOResult(IF numBytesToRead < numBytesRequested THEN EOF ELSE OK,
                           numBytesToRead,
                           Copy(p.b, SubSeq(d, intOff + 1, intOff + numBytesToRead)))

\* the frame of the call ReadAt(p, off) or WriteAt(p, off) on file i
IOFrame(op, i, p, off) ==
    [Call(op, i, NoInode, "", "") EXCEPT !.off = off, !.p = p]

\* thread t's call with frame f ends with the result r
ReturnIO(t, f, r) ==
    /\ io' = [io EXCEPT ![t] = [off |-> f.off, p |-> f.p, n |-> r.n, out |-> r.bytes]]
    /\ IF r.err = Panic
       THEN Goto(t, "panic", f)
       ELSE Return(t, f, r.err, NoOut)

\* ReadAt(p, off) for p among Bufs and off among Offs
ReadAtWith(t, Offs, Bufs) ==
    /\ UNCHANGED tree
    /\ UNCHANGED locks
    /\ UNCHANGED <<data, cap, maxInt>>
    /\ UNCHANGED opened
    /\ Idle(t)
    /\ \E i \in FileInodes, off \in Offs, p \in Bufs :
          /\ (p.nil \/ off < 0 \/ off > maxInt \/ CanRLock(i))
          /\ ReturnIO(t, IOFrame("ReadAt", i, p, off),
                      ReadAtResult(data[i], cap[i], p, off))

\* as Wrapped, but no sum is taken for one that wrapped around
NeverWrapped(sum) == FALSE

\* WriteAt line 103: the sum off+int64(len(p)) has wrapped around
Wrapped(sum) == sum < 0

\* WriteAt lines 90-105: the checks made before the lock is taken
WriteAtArgsErr(p, off) ==
    IF p.nil THEN EInval
    ELSE IF off < 0 THEN EInval
    ELSE IF Wrap(off + Len(p.b), MaxInt64) > maxInt THEN ENoSpace
    ELSE IF Wrapped(Wrap(off + Len(p.b), MaxInt64)) THEN ENoSpace
    ELSE OK

\* as Padding, but the bytes are not zero
PaddingOfOnes(n) == [j \in 1 .. n |-> MaxByte]

\* make([]byte, n)
Padding(n) == [j \in 1 .. n |-> 0]

\* WriteAt lines 112-116: i.data after the append
Appended(d, p, off) ==
    LET intOff == Wrap(off, maxInt)
        end == Wrap(intOff + Len(p.b), maxInt)
        zeroesToAppend == IF end > Len(d) THEN end - Len(d) ELSE 0
    IN  d \o Padding(zeroesToAppend)

\* the capacities append may leave the slice with: the one it has when the
\* new length fits, else one the runtime chooses, at least the new length
NewCaps(c, len) == IF len <= c THEN {c} ELSE len .. (len + MaxSlack)

\* WriteAt line 118 and the return, on a file whose data d is in a slice of
\* capacity c
WriteAtResult(d, c, p, off) ==
    LET intOff == Wrap(off, maxInt)
        end == Wrap(intOff + Len(p.b), maxInt)
    IN  IF ~SliceInRange(intOff, end, c)
        THEN IOResult(Panic, 0, d)
        ELSE IOResult(OK, Len(p.b),
                      [j \in 1 .. Len(d) |->
                          IF intOff < j /\ j <= end THEN p.b[j - intOff] ELSE d[j]])

\* as CanLock, but the lock excludes nobody
CanLockAnyway(i) == TRUE

\* rwMutex.Lock() of a file returns: no writer and no reader is inside
CanLock(i) == CanAnnounce(i) /\ NoReaders(i)

\* Write lines 75-76: the offset of t's handle after a Write that returned r
Advanced(t, op, r) ==
    IF op = "Write" /\ r.err # Panic
    THEN [handle EXCEPT ![t].offset = Wrap(@ + r.n, MaxInt64)]
    ELSE handle

\* the call op, WriteAt(p, off) or the Write that calls it, on a file among
\* Files, for p among Bufs and off among Offs; fr.buf is the slice that append
\* has returned.
\*   wa_store   the lock is held and append has returned: i.data = (line 116)
\*   wa_copy    the copy of line 118, the Unlock and the return
WriteSteps(t, op, Files, Offs, Bufs) ==
    /\ UNCHANGED tree
    /\ UNCHANGED maxInt
    /\ UNCHANGED <<text, visited>>
    /\ pc[t] \in {"idle", "wa_store", "wa_copy"}
    /\ \/ /\ Idle(t)
          /\ UNCHANGED <<data, cap>>
          /\ \E i \in Files \cap FileInodes, off \in Offs, p \in Bufs :
                LET f == IOFrame(op, i, p, off)
                    err == WriteAtArgsErr(p, off)
                IN  IF err # OK
                    THEN /\ UNCHANGED locks
                         /\ UNCHANGED handle
                         /\ ReturnIO(t, f, IOResult(err, 0, data[i]))
                    ELSE /\ CanLock(i)
                         /\ SetLocks(LockNow(t, i))
                         /\ UNCHANGED <<io, handle>>
                         /\ Goto(t, "wa_store",
                                 [f EXCEPT !.buf = Appended(data[i], p, off)])
       \/ /\ pc[t] = "wa_store"
          /\ fr[t].op = op
          /\ UNCHANGED locks
          /\ UNCHANGED <<io, handle>>
          /\ data' = [data EXCEPT ![fr[t].a] = fr[t].buf]
          /\ \E c \in NewCaps(cap[fr[t].a], Len(fr[t].buf)) :
                cap' = [cap EXCEPT ![fr[t].a] = c]
          /\ Goto(t, "wa_copy", fr[t])
       \/ /\ pc[t] = "wa_copy"
          /\ fr[t].op = op
          /\ LET i == fr[t].a
                 r == WriteAtResult(data[i], cap[i], fr[t].p, fr[t].off)
             IN  /\ SetLocks(Unlock(L, i))
                 /\ data' = [data EXCEPT ![i] = r.bytes]
                 /\ UNCHANGED cap
                 /\ handle' = Advanced(t, op, r)
                 /\ ReturnIO(t, fr[t], r)

WriteAtWith(t, Files, Offs, Bufs) == WriteSteps(t, "WriteAt", Files, Offs, Bufs)

\* the offsets and the buffers of the calls
Offsets == MinInt64 .. MaxInt64
Buffers == {NilBuffer} \cup {Buffer(b) : b \in SeqsUpTo(MaxLen)}

ReadAt(t) == ReadAtWith(t, Offsets, Buffers)
WriteAt(t) == WriteAtWith(t, Inodes, Offsets, Buffers)

\* --------------------------------------------- FileInodeEntry, InodeEntry
\* getInodeEntry(entry, nil, nil) and the cast to *FileInode
FileEntryErr(i, entry) ==
    IF ~Exists(contents, i, entry) THEN ENoEnt
    ELSE IF ~IsFile(contents[i][entry]) THEN EIsDir
    ELSE OK

\* FileInodeEntry lines 183-193, which directory.OpenFile calls
FileInodeEntry(t) ==
    /\ UNCHANGED files
    /\ Idle(t)
    /\ \E i \in Dirs, entry \in EntryNames :
        /\ CanRLock(i)
        /\ UNCHANGED tree
        /\ UNCHANGED locks
        /\ Return(t, Call("FileInodeEntry", i, NoInode, entry, ""),
                  FileEntryErr(i, entry),
                  IF FileEntryErr(i, entry) = OK
                     THEN Out(contents[i][entry], <<>>, {}) ELSE NoOut)

\* getInodeEntry(entry, nil, nil) as InodeEntry calls it
InodeEntryErr(i, entry) ==
    IF ~Exists(contents, i, entry) THEN ENoEnt ELSE OK

\* InodeEntry lines 156-159, which directory.Stat calls
InodeEntry(t) ==
    /\ UNCHANGED files
    /\ Idle(t)
    /\ \E i \in Dirs, entry \in EntryNames :
        /\ CanRLock(i)
        /\ UNCHANGED tree
        /\ UNCHANGED locks
        /\ Return(t, Call("InodeEntry", i, NoInode, entry, ""),
                  InodeEntryErr(i, entry),
                  IF InodeEntryErr(i, entry) = OK
                     THEN Out(contents[i][entry], <<>>, {}) ELSE NoOut)

\* ------------------------------------------------- one file, one call
\* the number of calls made in a run that starts with a file
MaxFileCalls == 1

\* the inode of the file that the root holds when a run starts with one
FirstFile == Root + 1

\* the root holds the file "a", as after CreateFileInodeEntry("a", false), and
\* the file has the data d in a slice of capacity c, as after
\* TruncateAndWriteAll of such a slice
InitOneFile(d, c) ==
    /\ InitCallers
    /\ kind = [i \in Inodes |->
                 IF i = Root THEN "dir" ELSE IF i = FirstFile THEN "file" ELSE "free"]
    /\ contents = [i \in Inodes |->
                     IF i = Root
                        THEN [NewDirectoryInode(Root, Root) EXCEPT !["a"] = FirstFile]
                        ELSE EmptyTable]
    /\ deleted = [i \in Inodes |-> FALSE]
    /\ data = [i \in Inodes |-> IF i = FirstFile THEN d ELSE <<>>]
    /\ cap = [i \in Inodes |-> IF i = FirstFile THEN c ELSE 0]

\* any file of at most MaxLen bytes, on a build with either width of int
InitFile ==
    /\ \E d \in SeqsUpTo(MaxLen) : \E c \in Len(d) .. (Len(d) + MaxSlack) :
          InitOneFile(d, c)
    /\ maxInt \in {MaxInt32, MaxInt64}
    /\ recording = TRUE /\ calls = MaxFileCalls /\ prev = NoPrev(FALSE)

\* a single caller reads from the file or writes to it
NextFile ==
    \E t \in {MainThread} :
        \/ ReadAt(t)
        \/ WriteAt(t)

SpecFile == InitFile /\ [][NextFile]_vars

\* ------------------------------------------ one file, a writer per thread
\* the offset at which thread t writes its byte: 0 for the first thread, 1 for
\* the next, and so on
OwnOffset(t) == t - MainThread

\* a file no longer than the threads will make it
InitWriters ==
    /\ \E d \in SeqsUpTo(Min(MaxLen, MaxThreads)) :
          \E c \in Len(d) .. (Len(d) + MaxSlack) : InitOneFile(d, c)
    /\ maxInt \in {MaxInt32, MaxInt64}
    /\ recording = TRUE /\ calls = MaxThreads /\ prev = NoPrev(FALSE)

\* thread t, which has made no call yet, writes one byte at its own offset
WriteOwnByte(t) ==
    /\ ret[t].op = "none"
    /\ WriteAtWith(t, {FirstFile}, {OwnOffset(t)}, {Buffer(<<b>>) : b \in Bytes})

\* every thread writes its byte, in any order
NextWriters == \E t \in Threads : WriteOwnByte(t)

SpecWriters == InitWriters /\ [][NextWriters]_vars

\* ------------------------------------------------------ specifications
\* any number of callers, any interleaving of their calls
Next ==
    \E t \in Threads :
        \/ AddDirectory(t)
        \/ CreateFileInodeEntry(t)
        \/ DeleteFile(t)
        \/ InodeEntries(t)
        \/ DirectoryInodeEntry(t)
        \/ DeleteDirectory(t)
        \/ ReversePathLookup(t)
        \/ MoveEntry(t)

Spec == Init /\ [][Next]_vars

\* a single caller; every call's result and the tree it began with are recorded
InitRecorded ==
    /\ InitTree /\ maxInt = MaxInt64
    /\ recording = TRUE /\ calls = MaxRecorded /\ prev = NoPrev(FALSE)

NextSeq ==
    \E t \in {MainThread} :
        \/ AddDirectory(t)
        \/ CreateFileInodeEntry(t)
        \/ DeleteFile(t)
        \/ InodeEntries(t)
        \/ DirectoryInodeEntry(t)
        \/ DeleteDirectory(t)
        \/ ReversePathLookup(t)
        \/ MoveEntryAnyPath(t)

SpecSeq == InitRecorded /\ [][NextSeq]_vars

\* ------------------------------------- one file, its name and its handle
\* a handle is the inode that FileInodeEntry returned (file.File keeps the
\* pointer); the caller holds one on the file "a" and reads at offsets up to
\* MaxLen into buffers of up to MaxLen bytes, and writes up to MaxWrite bytes
MaxWrite == 1
HandleOffsets == 0 .. MaxLen
ReadBuffers == {Buffer(Padding(k)) : k \in 0 .. MaxLen}
WriteBuffers == {Buffer(b) : b \in SeqsUpTo(MaxWrite)}

\* the number of calls made in a run that starts with a handle on a file
MaxHandleCalls == 3

InitUnlink ==
    /\ \E d \in SeqsUpTo(MaxLen) : \E c \in Len(d) .. (Len(d) + MaxSlack) :
          InitOneFile(d, c)
    /\ maxInt \in {MaxInt32, MaxInt64}
    /\ recording = TRUE /\ calls = MaxHandleCalls /\ prev = NoPrev(TRUE)

\* a single caller that removes files and makes them, looks names up, and
\* reads and writes the files there are, named or not
NextUnlink ==
    \E t \in {MainThread} :
        \/ DeleteFile(t)
        \/ CreateFileInodeEntry(t)
        \/ FileInodeEntry(t)
        \/ InodeEntry(t)
        \/ ReadAtWith(t, HandleOffsets, ReadBuffers)
        \/ WriteAtWith(t, Inodes, HandleOffsets, WriteBuffers)

SpecUnlink == InitUnlink /\ [][NextUnlink]_vars

\* ----------------------------------------------------------------- paths
\* a path is a sequence of characters: the separator, the dot and one
\* character of a name; the paths of the calls have up to MaxChars characters
MaxChars == 7
PathSeparator == "/"
DotChar == "."
NameChar == "a"
Chars == {PathSeparator, DotChar, NameChar}
Paths == UNION {[1 .. k -> Chars] : k \in 0 .. MaxChars}

\* strings.HasPrefix
HasPrefix(s, pre) == Len(s) >= Len(pre) /\ SubSeq(s, 1, Len(pre)) = pre

\* Clean lines 36-48: a separator that follows a separator is left out
RECURSIVE CollapseSeparators(_)
CollapseSeparators(s) ==
    IF s = <<>> THEN <<>>
    ELSE IF Len(s) > 1 /\ s[Len(s)] = PathSeparator /\ s[Len(s) - 1] = PathSeparator
    THEN CollapseSeparators(SubSeq(s, 1, Len(s) - 1))
    ELSE Append(CollapseSeparators(SubSeq(s, 1, Len(s) - 1)), s[Len(s)])

\* strings.Split(s, PathSeparator): the parts between the separators, one more
\* than there are separators
RECURSIVE Split(_)
Split(s) ==
    IF \A j \in 1 .. Len(s) : s[j] # PathSeparator THEN <<s>>
    ELSE LET k == CHOOSE j \in 1 .. Len(s) :
                      s[j] = PathSeparator /\ \A h \in 1 .. (j - 1) : s[h] # PathSeparator
         IN  <<SubSeq(s, 1, k - 1)>> \o Split(SubSeq(s, k + 1, Len(s)))

\* strings.Join(parts, PathSeparator)
RECURSIVE JoinParts(_)
JoinParts(parts) ==
    IF parts = <<>> THEN <<>>
    ELSE IF Len(parts) = 1 THEN parts[1]
    ELSE parts[1] \o <<PathSeparator>> \o JoinParts(Tail(parts))

\* Clean lines 52-57: the parts other than "."
RECURSIVE SanitizedParts(_)
SanitizedParts(parts) ==
    IF parts = <<>> THEN <<>>
    ELSE IF Head(parts) = <<DotChar>> THEN SanitizedParts(Tail(parts))
    ELSE <<Head(parts)>> \o SanitizedParts(Tail(parts))

\* as TrimLeadingParents, but only the first "/../" is taken away
TrimOneParent(path) ==
    IF HasPrefix(path, <<PathSeparator, DotChar, DotChar, PathSeparator>>)
    THEN <<PathSeparator>> \o SubSeq(path, 5, Len(path))
    ELSE path

\* Clean lines 61-63: while the path begins with "/../", that is replaced by "/"
RECURSIVE TrimLeadingParents(_)
TrimLeadingParents(path) ==
    IF HasPrefix(path, <<PathSeparator, DotChar, DotChar, PathSeparator>>)
    THEN TrimLeadingParents(<<PathSeparator>> \o SubSeq(path, 5, Len(path)))
    ELSE path

\* filepath.Clean
Clean(path) ==
    LET trimmed == TrimLeadingParents(JoinParts(SanitizedParts(Split(CollapseSeparators(path)))))
    IN  IF trimmed = <<PathSeparator, DotChar, DotChar>> THEN <<PathSeparator>> ELSE trimmed

\* thread t calls Clean on a path, and after that on the path Clean returned
CleanPath(t) ==
    /\ Idle(t)
    /\ UNCHANGED tree
    /\ UNCHANGED locks
    /\ UNCHANGED <<data, cap, io, maxInt, handle, visited>>
    /\ \E s \in IF ret[t].op = "Clean" THEN {text[t].out} ELSE Paths :
          /\ text' = [text EXCEPT ![t] = [in |-> s, out |-> Clean(s)]]
          /\ Return(t, Call("Clean", NoInode, NoInode, "", ""), OK, NoOut)

\* a single caller cleans paths
NextText == \E t \in {MainThread} : CleanPath(t)

SpecText == InitRecorded /\ [][NextText]_vars

\* -------------------------------------------------------------- file.File
\* handle[t] is the File that thread t holds: its FileInode, its offset and
\* the mode it was opened with. Each thread has a File of its own, so nobody
\* else waits for the mutex of lines 65, 73 and 81.
O_RDONLY == 0
O_WRONLY == 1
O_RDWR == 2
O_APPEND == 1024

\* a & b for a and b from 0
RECURSIVE BitAnd(_, _)
BitAnd(a, b) ==
    IF a = 0 \/ b = 0 THEN 0
    ELSE 2 * BitAnd(a \div 2, b \div 2) + (IF a % 2 = 1 /\ b % 2 = 1 THEN 1 ELSE 0)

checkMode(combinedModes, singleMode) == BitAnd(combinedModes, singleMode) = singleMode
IsWriteAllowed(mode) == checkMode(mode, O_WRONLY) \/ checkMode(mode, O_RDWR)
IsReadOnly(mode) == ~IsWriteAllowed(mode)
\* as IsWriteOnly, but of the mode O_WRONLY alone
IsExactlyWriteOnly(mode) == mode = O_WRONLY

IsWriteOnly(mode) == checkMode(mode, O_WRONLY)
IsAppendMode(mode) == checkMode(mode, O_APPEND)

\* the modes files are opened with
OpenModes ==
    {O_RDONLY, O_WRONLY, O_RDWR, O_WRONLY + O_APPEND, O_RDWR + O_APPEND}

\* process.OpenFile(path, mode) for the path of an entry of a directory:
\* FileInodeEntry and NewFile, which starts the File at offset 0
OpenFileWith(t, Modes) ==
    /\ Idle(t)
    /\ UNCHANGED tree
    /\ UNCHANGED locks
    /\ UNCHANGED <<data, cap, io, maxInt, text, visited>>
    /\ \E i \in Dirs, entry \in EntryNames, mode \in Modes :
          LET err == FileEntryErr(i, entry)
          IN  /\ CanRLock(i)
              /\ handle' = IF err = OK
                             THEN [handle EXCEPT ![t] = [ino |-> contents[i][entry],
                                                         offset |-> 0, mode |-> mode]]
                             ELSE handle
              /\ Return(t, Call("OpenFile", i, NoInode, entry, ""), err,
                        IF err = OK THEN Out(contents[i][entry], <<>>, {}) ELSE NoOut)

\* io.SeekStart, io.SeekCurrent, io.SeekEnd, and a whence that is none of them
SeekStart == "SeekStart"
SeekCurrent == "SeekCurrent"
SeekEnd == "SeekEnd"
OtherWhence == "other"
Whences == {SeekStart, SeekCurrent, SeekEnd, OtherWhence}

\* the offsets given to Seek
SeekDeltas == {MinInt64, -2, -1, 0, 1, 2, MaxInt64}

\* as SeekTarget, but SeekCurrent counts from the start of the file
SeekTargetFromStart(whence, offset, size, delta) ==
    IF whence = SeekEnd THEN Wrap(size + delta, MaxInt64) ELSE delta

\* Seek lines 84-91: the offset asked for, an int64
SeekTarget(whence, offset, size, delta) ==
    CASE whence = SeekStart -> delta
      [] whence = SeekCurrent -> Wrap(offset + delta, MaxInt64)
      [] whence = SeekEnd -> Wrap(size + delta, MaxInt64)
      [] OTHER -> offset

\* Seek lines 90-96
SeekErr(whence, target) ==
    IF whence \notin {SeekStart, SeekCurrent, SeekEnd} THEN EInval
    ELSE IF target < 0 THEN EInval
    ELSE OK

\* Seek(delta, whence) on t's File; io[t].n is the offset it returns. Size()
\* takes the read lock of the file.
Seek(t) ==
    /\ Idle(t)
    /\ handle[t].ino # NoInode
    /\ UNCHANGED tree
    /\ UNCHANGED locks
    /\ UNCHANGED <<data, cap, maxInt, text, visited>>
    /\ \E delta \in SeekDeltas, whence \in Whences :
          LET i == handle[t].ino
              target == SeekTarget(whence, handle[t].offset, Len(data[i]), delta)
              err == SeekErr(whence, target)
              offset == IF err = OK THEN target ELSE handle[t].offset
          IN  /\ whence = SeekEnd => CanRLock(i)
              /\ handle' = [handle EXCEPT ![t].offset = offset]
              /\ io' = [io EXCEPT ![t] = [off |-> delta, p |-> NilBuffer,
                                          n |-> offset, out |-> <<>>]]
              /\ Return(t, Call("Seek", i, NoInode, whence, ""), err, NoOut)

\* Read(p) on t's File for p among Bufs: ReadAt at the offset, which then
\* advances by the number of bytes read
ReadWith(t, Bufs) ==
    /\ Idle(t)
    /\ handle[t].ino # NoInode
    /\ UNCHANGED tree
    /\ UNCHANGED locks
    /\ UNCHANGED <<data, cap, maxInt, text, visited>>
    /\ \E p \in Bufs :
          LET i == handle[t].ino
              off == handle[t].offset
              r == ReadAtResult(data[i], cap[i], p, off)
          IN  /\ (p.nil \/ off < 0 \/ off > maxInt \/ CanRLock(i))
              /\ handle' = IF r.err = Panic THEN handle
                           ELSE [handle EXCEPT ![t].offset = Wrap(@ + r.n, MaxInt64)]
              /\ ReturnIO(t, IOFrame("Read", i, p, off), r)

\* Write(p) on t's File for p among Bufs: WriteAt at the offset, which then
\* advances by the number of bytes written
WriteWith(t, Bufs) ==
    /\ pc[t] = "idle" => handle[t].ino # NoInode
    /\ WriteSteps(t, "Write", {handle[t].ino}, {handle[t].offset}, Bufs)

\* a file of at most MaxLen bytes, which nobody has opened yet
InitHandle ==
    /\ \E d \in SeqsUpTo(MaxLen) : InitOneFile(d, Len(d))
    /\ maxInt \in {MaxInt32, MaxInt64}
    /\ recording = TRUE /\ calls = MaxRecorded /\ prev = NoPrev(FALSE)

\* a single caller opens the file for reading and writing, seeks, reads and
\* writes
NextSeek ==
    \E t \in {MainThread} :
        \/ OpenFileWith(t, {O_RDWR})
        \/ Seek(t)
        \/ ReadWith(t, ReadBuffers \cup {NilBuffer})
        \/ WriteWith(t, WriteBuffers)

SpecSeek == InitHandle /\ [][NextSeek]_vars

\* ------------------------------------------------------- the modes of a File
\* ReadAll lines 35-41 on the file of t's File: a copy of the bytes
ReadAll(t) ==
    /\ Idle(t)
    /\ handle[t].ino # NoInode
    /\ CanRLock(handle[t].ino)
    /\ UNCHANGED tree
    /\ UNCHANGED locks
    /\ UNCHANGED <<data, cap, maxInt>>
    /\ UNCHANGED opened
    /\ ReturnIO(t, IOFrame("ReadAll", handle[t].ino, NilBuffer, 0),
                IOResult(OK, Len(data[handle[t].ino]), data[handle[t].ino]))

\* TruncateAndWriteAll lines 44-52 on the file of t's File, for d among Bufs: the
\* file takes the slice d
TruncateAndWriteAllWith(t, Bufs) ==
    /\ Idle(t)
    /\ handle[t].ino # NoInode
    /\ UNCHANGED tree
    /\ UNCHANGED locks
    /\ UNCHANGED maxInt
    /\ UNCHANGED opened
    /\ \E d \in Bufs :
          LET i == handle[t].ino
          IN  IF d.nil
              THEN /\ UNCHANGED <<data, cap>>
                   /\ ReturnIO(t, IOFrame("TruncateAndWriteAll", i, d, 0),
                               IOResult(EInval, 0, data[i]))
              ELSE /\ CanLock(i)
                   /\ data' = [data EXCEPT ![i] = d.b]
                   /\ \E c \in Len(d.b) .. (Len(d.b) + MaxSlack) :
                         cap' = [cap EXCEPT ![i] = c]
                   /\ ReturnIO(t, IOFrame("TruncateAndWriteAll", i, d, 0),
                               IOResult(OK, 0, d.b))

\* the calls on a File that its mode can forbid
GatedOps == {"Read", "ReadAt", "ReadAll", "Write", "WriteAt", "TruncateAndWriteAll"}

\* the error a File of the given mode answers the call op with before it does
\* anything, OK if the mode allows the call
ModeErr(op, mode) ==
    CASE op \in {"Read", "ReadAt", "ReadAll"} ->
             IF IsWriteOnly(mode) THEN EInval ELSE OK
      [] op = "Write" ->
             IF IsReadOnly(mode) THEN EInval ELSE OK
      [] op \in {"WriteAt", "TruncateAndWriteAll"} ->
             IF IsReadOnly(mode) \/ IsAppendMode(mode) THEN EInval ELSE OK
      [] OTHER -> OK

\* thread t makes a call that the mode of its File forbids, with an offset
\* among Offs and a buffer among Bufs
Forbidden(t, Offs, Bufs) ==
    /\ Idle(t)
    /\ handle[t].ino # NoInode
    /\ UNCHANGED tree
    /\ UNCHANGED locks
    /\ UNCHANGED <<data, cap, maxInt>>
    /\ UNCHANGED opened
    /\ \E op \in GatedOps, off \in Offs, p \in Bufs :
          /\ ModeErr(op, handle[t].mode) # OK
          /\ op \in {"Read", "Write"} => off = handle[t].offset
          /\ op \in {"ReadAll", "TruncateAndWriteAll"} => off = 0
          /\ op = "ReadAll" => p = NilBuffer
          /\ ReturnIO(t, IOFrame(op, handle[t].ino, p, off),
                      IOResult(ModeErr(op, handle[t].mode), 0, p.b))

\* thread t begins no call op that the mode of its File forbids
Allowed(t, op) == pc[t] = "idle" => ModeErr(op, handle[t].mode) = OK

\* the calls on t's File, each answered by the mode or else by the call
\* itself. The Write of a File in append mode is left out.
FileCall(t) ==
    \/ Forbidden(t, HandleOffsets, ReadBuffers \cup {NilBuffer})
    \/ Allowed(t, "Read") /\ ReadWith(t, ReadBuffers)
    \/ Allowed(t, "ReadAt") /\ ReadAtWith(t, HandleOffsets, ReadBuffers)
    \/ Allowed(t, "ReadAll") /\ ReadAll(t)
    \/ Allowed(t, "Write") /\ (pc[t] = "idle" => ~IsAppendMode(handle[t].mode))
                           /\ WriteWith(t, WriteBuffers)
    \/ Allowed(t, "WriteAt") /\ WriteAtWith(t, {handle[t].ino}, HandleOffsets, WriteBuffers)
    \/ Allowed(t, "TruncateAndWriteAll") /\ TruncateAndWriteAllWith(t, WriteBuffers)

\* a single caller opens the file in some mode, moves the offset and calls
\* the File
NextModes ==
    \E t \in {MainThread} :
        \/ OpenFileWith(t, OpenModes)
        \/ Seek(t)
        \/ FileCall(t)

\* as InitHandle, for MaxHandleCalls calls
InitModes ==
    /\ \E d \in SeqsUpTo(MaxLen) : InitOneFile(d, Len(d))
    /\ maxInt \in {MaxInt32, MaxInt64}
    /\ recording = TRUE /\ calls = MaxHandleCalls /\ prev = NoPrev(FALSE)

SpecModes == InitModes /\ [][NextModes]_vars

\* ------------------------------------------------------ LookupSubdirectory
\* the paths given to the calls that walk the tree have up to MaxLookupChars
\* characters
MaxLookupChars == 4
LookupPaths == {s \in Paths : Len(s) <= MaxLookupChars}

IsAbsolutePath(path) == HasPrefix(path, <<PathSeparator>>)
IsRelativePath(path) == ~IsAbsolutePath(path)

\* the entry name that the characters of part spell; a name that no directory
\* of the model holds, such as one of two characters, is NoName
NoName == ""
EntryName(part) ==
    CASE part = <<DotChar>> -> SelfDirectoryEntry
      [] part = <<DotChar, DotChar>> -> ParentDirectoryEntry
      [] Len(part) = 1 /\ part[1] \in Names -> part[1]
      [] OTHER -> NoName

\* strings.TrimLeft(s, PathSeparator)
RECURSIVE TrimLeft(_)
TrimLeft(s) ==
    IF s # <<>> /\ Head(s) = PathSeparator THEN TrimLeft(Tail(s)) ELSE s

\* utils.Cut(s, PathSeparator)
Cut(s) ==
    IF \E j \in 1 .. Len(s) : s[j] = PathSeparator
    THEN LET k == CHOOSE j \in 1 .. Len(s) :
                      s[j] = PathSeparator /\ \A h \in 1 .. (j - 1) : s[h] # PathSeparator
         IN  [before |-> SubSeq(s, 1, k - 1), after |-> SubSeq(s, k + 1, Len(s)),
              found |-> TRUE]
    ELSE [before |-> s, after |-> <<>>, found |-> FALSE]

\* utils.RightCut(s, PathSeparator)
RightCut(s) ==
    IF \E j \in 1 .. Len(s) : s[j] = PathSeparator
    THEN LET k == CHOOSE j \in 1 .. Len(s) :
                      s[j] = PathSeparator /\ \A h \in (j + 1) .. Len(s) : s[h] # PathSeparator
         IN  [before |-> SubSeq(s, 1, k - 1), after |-> SubSeq(s, k + 1, Len(s)),
              found |-> TRUE]
    ELSE [before |-> <<>>, after |-> s, found |-> FALSE]

\* what a lookup gives: an error, or OK and an inode
Found(i) == [err |-> OK, val |-> i]
NotFound(err) == [err |-> err, val |-> NoInode]

\* DirectoryInodeEntry(entry) on i when no other call is running: lines
\* 162-179, for the entry that part spells
DirectoryEntryOf(i, part) ==
    IF EntryName(part) \notin EntryNames THEN NotFound(ENoEnt)
    ELSE IF DirectoryEntryErr(i, EntryName(part)) # OK
    THEN NotFound(DirectoryEntryErr(i, EntryName(part)))
    ELSE IF deleted[contents[i][EntryName(part)]] THEN NotFound(ENoEnt)
    ELSE Found(contents[i][EntryName(part)])

\* LookupSubdirectory lines 269-281: the loop, from the directory i with the
\* rest of the path to go
RECURSIVE LookupLoop(_, _)
LookupLoop(i, rest) ==
    IF Len(rest) = 0 THEN Found(i)
    ELSE LET cut == Cut(TrimLeft(rest))
             entry == DirectoryEntryOf(i, cut.before)
         IN  IF entry.err # OK THEN entry ELSE LookupLoop(entry.val, cut.after)

\* LookupSubdirectory(subdirectory) on i when no other call is running
LookupSubdirectoryOf(i, subdirectory) ==
    IF subdirectory = <<>> THEN Found(i)
    ELSE IF ~IsRelativePath(subdirectory) THEN NotFound(EInval)
    ELSE LookupLoop(i, subdirectory)

\* thread t calls LookupSubdirectory; the read locks it takes on the way are
\* free, and are free again when it returns
LookupSubdirectory(t) ==
    /\ Idle(t)
    /\ UNCHANGED tree
    /\ UNCHANGED locks
    /\ UNCHANGED <<data, cap, io, maxInt, handle, visited>>
    /\ \A i \in Dirs : CanRLock(i)
    /\ \E i \in Dirs, path \in LookupPaths :
          LET found == LookupSubdirectoryOf(i, path)
          IN  /\ text' = [text EXCEPT ![t] = [in |-> path, out |-> <<>>]]
              /\ Return(t, Call("LookupSubdirectory", i, NoInode, "", ""),
                        found.err, Out(found.val, <<>>, {}))

\* directory.ReversePathLookup lines 134-135: the path it returns for the
\* names pathParts
PathOfParts(pathParts) ==
    <<PathSeparator>> \o JoinParts([j \in 1 .. Len(pathParts) |-> <<pathParts[j]>>])

\* a single caller makes directories and files and looks paths up
NextLookup ==
    \E t \in {MainThread} :
        \/ AddDirectory(t)
        \/ CreateFileInodeEntry(t)
        \/ LookupSubdirectory(t)

SpecLookup == InitRecorded /\ [][NextLookup]_vars

\* ------------------------------------------- process: files named by paths
\* The calls of the process context on a path, made when no other call is
\* running, with the root as working directory: each is taken in one step, the
\* locks it takes on the way being free before and after it.

\* the paths given to these calls have up to MaxProcessChars characters
MaxProcessChars == 3
ProcessPaths == {s \in Paths : Len(s) <= MaxProcessChars}

\* toCleanRelativePathAndBaseDir: the path relative to the base directory,
\* which is the root for an absolute path and the working directory otherwise
CleanRelativePath(path) ==
    IF IsAbsolutePath(Clean(path)) THEN Tail(Clean(path)) ELSE Clean(path)

\* directory.DeleteFile lines 323-331, and the same lines of OpenFile and Stat:
\* the directory that holds the entry the path names
SubdirOf(relativePath) ==
    IF RightCut(relativePath).found
    THEN LookupSubdirectoryOf(Root, RightCut(relativePath).before)
    ELSE Found(Root)

\* the entry of that directory which the path names
EntryOfPath(relativePath) == EntryName(RightCut(relativePath).after)

\* the checks that directory.DeleteFile, OpenFile and CreateFile begin with
PathArgErr(relativePath) ==
    IF relativePath = <<>> THEN EPlain
    ELSE IF ~IsRelativePath(relativePath) THEN EPlain
    ELSE OK

\* directory.DeleteFile lines 314-337: its error, OK when it deletes the file
DeleteFilePathErr(relativePath) ==
    IF PathArgErr(relativePath) # OK THEN PathArgErr(relativePath)
    ELSE IF SubdirOf(relativePath).err # OK THEN SubdirOf(relativePath).err
    ELSE IF EntryOfPath(relativePath) \notin EntryNames THEN ENoEnt
    ELSE DeleteFileErr(contents, SubdirOf(relativePath).val, EntryOfPath(relativePath))

\* directory.OpenFile lines 249-273: its error, OK when it returns the file
OpenFilePathErr(relativePath) ==
    IF PathArgErr(relativePath) # OK THEN PathArgErr(relativePath)
    ELSE IF SubdirOf(relativePath).err # OK THEN SubdirOf(relativePath).err
    ELSE IF EntryOfPath(relativePath) \notin EntryNames THEN ENoEnt
    ELSE FileEntryErr(SubdirOf(relativePath).val, EntryOfPath(relativePath))

\* directory.Stat lines 275-312: its error, OK when it returns a FileInfo
StatPathErr(relativePath) ==
    IF relativePath = <<>> THEN OK
    ELSE IF ~IsRelativePath(relativePath) THEN EPlain
    ELSE IF SubdirOf(relativePath).err # OK THEN SubdirOf(relativePath).err
    ELSE IF EntryOfPath(relativePath) \notin EntryNames THEN ENoEnt
    ELSE InodeEntryErr(SubdirOf(relativePath).val, EntryOfPath(relativePath))

\* the frame of a call of the process context on a path
PathCall(op) == Call(op, Root, NoInode, "", "")

\* process.DeleteFile(path)
ProcessDeleteFile(t) ==
    /\ Idle(t)
    /\ \A i \in Inodes : CanLock(i)
    /\ UNCHANGED locks
    /\ UNCHANGED <<data, cap, io, maxInt, handle, visited>>
    /\ \E path \in ProcessPaths :
          LET relativePath == CleanRelativePath(path)
              err == DeleteFilePathErr(relativePath)
          IN  /\ text' = [text EXCEPT ![t] = [in |-> path, out |-> relativePath]]
              /\ IF err = OK
                 THEN /\ contents' = [contents EXCEPT
                            ![SubdirOf(relativePath).val][EntryOfPath(relativePath)] = NoInode]
                      /\ UNCHANGED <<kind, deleted>>
                 ELSE UNCHANGED tree
              /\ Return(t, PathCall("process.DeleteFile"), err, NoOut)

\* process.OpenFile(path, mode) for a mode among Modes
ProcessOpenFile(t, Modes) ==
    /\ Idle(t)
    /\ \A i \in Inodes : CanLock(i)
    /\ UNCHANGED tree
    /\ UNCHANGED locks
    /\ UNCHANGED <<data, cap, io, maxInt, visited>>
    /\ \E path \in ProcessPaths, mode \in Modes :
          LET relativePath == CleanRelativePath(path)
              err == OpenFilePathErr(relativePath)
              found == IF err = OK
                       THEN contents[SubdirOf(relativePath).val][EntryOfPath(relativePath)]
                       ELSE NoInode
          IN  /\ text' = [text EXCEPT ![t] = [in |-> path, out |-> relativePath]]
              /\ handle' = IF err = OK
                             THEN [handle EXCEPT ![t] = [ino |-> found, offset |-> 0,
                                                         mode |-> mode]]
                             ELSE handle
              /\ Return(t, PathCall("process.OpenFile"), err, Out(found, <<>>, {}))

\* process.Stat(path)
ProcessStat(t) ==
    /\ Idle(t)
    /\ \A i \in Inodes : CanLock(i)
    /\ UNCHANGED tree
    /\ UNCHANGED locks
    /\ UNCHANGED <<data, cap, io, maxInt, handle, visited>>
    /\ \E path \in ProcessPaths :
          LET relativePath == CleanRelativePath(path)
              err == StatPathErr(relativePath)
              found == IF err # OK THEN NoInode
                       ELSE IF relativePath = <<>> THEN Root
                       ELSE contents[SubdirOf(relativePath).val][EntryOfPath(relativePath)]
          IN  /\ text' = [text EXCEPT ![t] = [in |-> path, out |-> relativePath]]
              /\ Return(t, PathCall("process.Stat"), err, Out(found, <<>>, {}))

\* a single caller makes directories and files, and opens, deletes and stats
\* files by their paths
NextPaths ==
    \E t \in {MainThread} :
        \/ AddDirectory(t)
        \/ CreateFileInodeEntry(t)
        \/ ProcessOpenFile(t, {O_RDWR})
        \/ ProcessDeleteFile(t)
        \/ ProcessStat(t)

SpecPaths == InitRecorded /\ [][NextPaths]_vars

\* ------------------------------------------------------------ process.Walk
\* Walk is made when no other call is running, with the root as working
\* directory, and is taken in one step; visited[t] are the calls it made of
\* the WalkFunc, in order.

\* SkipDir, and an error of the WalkFunc's own
SkipDir == "SkipDir"
EStop == "EStop"

\* process.Stat(path): the error, or OK and the inode the FileInfo is of
StatOf(path) ==
    LET relativePath == CleanRelativePath(path)
        err == StatPathErr(relativePath)
    IN  IF err # OK THEN NotFound(err)
        ELSE IF relativePath = <<>> THEN Found(Root)
        ELSE Found(contents[SubdirOf(relativePath).val][EntryOfPath(relativePath)])

\* byEntry.Less: b[i].Name < b[j].Name, for the names of the model
Less(x, y) == x = "a" /\ y = "b"

\* the names of i's entries in the order the range over the map in
\* InodeEntries yields them: any order in Go, here the ascending one or, when
\* backwards, the descending one
RECURSIVE MapOrder(_, _)
MapOrder(S, backwards) ==
    IF S = {} THEN <<>>
    ELSE LET first == CHOOSE x \in S :
                         \A y \in S \ {x} : IF backwards THEN Less(y, x) ELSE Less(x, y)
         IN  <<first>> \o MapOrder(S \ {first}, backwards)

\* as Sorted, but the entries stay in the order they came in
Unsorted(entries) == entries

\* sort.Sort(byEntry(entries)): each entry is put before the first that is
\* not less than it
RECURSIVE Sorted(_)
Sorted(entries) ==
    IF entries = <<>> THEN <<>>
    ELSE LET rest == Sorted(Tail(entries))
             before == {j \in 0 .. Len(rest) : \A h \in 1 .. j : Less(rest[h], Head(entries))}
             k == CHOOSE j \in before : \A h \in before : h <= j
         IN  SubSeq(rest, 1, k) \o <<Head(entries)>> \o SubSeq(rest, k + 1, Len(rest))

\* process.ListDirectory(path): the error, or OK and the names of the entries
ListDirectoryOf(path, backwards) ==
    LET relativePath == CleanRelativePath(path)
        dir == IF IsRelativePath(relativePath)
               THEN LookupSubdirectoryOf(Root, relativePath) ELSE NotFound(EPlain)
    IN  [err |-> dir.err,
         names |-> IF dir.err = OK THEN MapOrder(Entries(contents, dir.val), backwards)
                   ELSE <<>>]

\* filepath.Join(path, name)
Join(path, name) == Clean(path \o <<PathSeparator>> \o <<name>>)

\* a call of the WalkFunc: the path, the inode of the FileInfo (NoInode for
\* nil) and the error it is given
Visit(path, i, err) == [path |-> path, ino |-> i, err |-> err]

\* the WalkFunc fn returns the error it is given; else SkipDir at the inode
\* fn.skip, its own error at the inode fn.stop, and nil elsewhere
WalkFn(fn, i, err) ==
    IF err # OK THEN err
    ELSE IF i = fn.skip THEN SkipDir
    ELSE IF i = fn.stop THEN EStop
    ELSE OK

\* Walk returns err after the calls visits of the WalkFunc
Walked(visits, err) == [visits |-> visits, err |-> err]

\* a call of walk that is in its loop of lines 82-115: the directory's path
\* and the entries the loop has not come to
Frame(path, entries) == [path |-> path, entries |-> entries]

\* what the WalkFunc is called with at path: the inode of the FileInfo, the
\* error, and for a directory the names ListDirectory returned
Given(path, i, list) == [path |-> path, ino |-> i, err |-> list.err, names |-> list.names]

\* lines 42-44 and 86-95, the Stat, and lines 62-67: a directory is listed, a
\* file is not, and a path whose Stat failed has the error and no FileInfo
ListedAs(path, stat, backwards) ==
    IF stat.err = OK /\ IsDirectory(stat.val)
    THEN Given(path, stat.val, ListDirectoryOf(path, backwards))
    ELSE Given(path, stat.val, [err |-> stat.err, names |-> <<>>])

Listed(path, backwards) == ListedAs(path, StatOf(path), backwards)

\* lines 76-80 after the WalkFunc returned err for what was listed, in a call
\* from the loop of the last of frames (from Walk when there is none): a
\* directory that was listed and got nil begins its own loop
Entered(frames, listed, err) ==
    IF listed.ino = NoInode \/ listed.err # OK \/ err # OK THEN frames
    ELSE IF ~IsDirectory(listed.ino) THEN frames
    ELSE frames \o <<Frame(listed.path, Sorted(listed.names))>>

\* the loops in progress, the calls of the WalkFunc so far, and the error that
\* every loop returns up to Walk (OK while the walk goes on)
Stepped(frames, done, err) == [frames |-> frames, done |-> done, err |-> err]

\* as StepAt, but SkipDir for a file lets the loop that made the call go on
StepAtGoingOn(rest, above, fn, done, listed) ==
    LET err == WalkFn(fn, listed.ino, listed.err)
        visits == done \o <<Visit(listed.path, listed.ino, listed.err)>>
    IN  IF err \notin {OK, SkipDir} THEN Stepped(<<>>, visits, err)
        ELSE Stepped(Entered(rest, listed, err), visits, OK)

\* The WalkFunc is called for what was listed.  When it returns nil or
\* SkipDir for a directory, or for a path whose Stat failed, the loop that
\* made the call goes on (lines 95 and 110): rest are then the loops in
\* progress.  When it returns SkipDir for a file, that loop returns SkipDir
\* (line 110, a file) and the loop above it goes on (line 110, a directory and
\* SkipDir), or Walk returns nil (lines 48-50): above are then the loops in
\* progress.  Any other error is returned by every loop (lines 95-96, 110-111).
StepAt(rest, above, fn, done, listed) ==
    LET err == WalkFn(fn, listed.ino, listed.err)
        visits == done \o <<Visit(listed.path, listed.ino, listed.err)>>
    IN  IF err \notin {OK, SkipDir} THEN Stepped(<<>>, visits, err)
        ELSE IF err = SkipDir /\ listed.ino # NoInode /\ ~IsDirectory(listed.ino)
        THEN Stepped(above, visits, OK)
        ELSE Stepped(Entered(rest, listed, err), visits, OK)

\* one pass of the loop of lines 82-115 in the last of frames; a loop that
\* has run out returns nil to the loop above it, which goes on (line 100)
Step(frames, fn, backwards, done) ==
    LET top == frames[Len(frames)]
        above == SubSeq(frames, 1, Len(frames) - 1)
    IN  IF top.entries = <<>> THEN Stepped(above, done, OK)
        ELSE StepAt(above \o <<Frame(top.path, Tail(top.entries))>>, above, fn, done,
                    Listed(Join(top.path, Head(top.entries)), backwards))

\* walk, lines 60-117, as the calls that are in progress: the walk goes on
\* from what a step left until no loop is in progress or an error is returned
RECURSIVE walk(_, _, _)
walk(stepped, fn, backwards) ==
    IF stepped.err # OK \/ stepped.frames = <<>>
    THEN Walked(stepped.done, stepped.err)
    ELSE walk(Step(stepped.frames, fn, backwards, stepped.done), fn, backwards)

\* Walk lines 41-52: the start is visited, its loop begun if it is a directory
\* that was listed and got nil; SkipDir from the start, a file or a directory,
\* leaves no loop in progress, and Walk returns nil
WalkOf(path, fn, backwards) ==
    walk(StepAt(<<>>, <<>>, fn, <<>>, Listed(path, backwards)), fn, backwards)

\* the inodes that a WalkFunc may single out, and NoInode for none
Marks == {i \in Inodes : kind[i] # "free"} \cup {NoInode}

\* the WalkFuncs: each returns SkipDir at one inode or none and its own error
\* at one inode or none; NoFn returns nil wherever it is given no error
WalkFns == [skip : Marks, stop : Marks]
NoFn == [skip |-> NoInode, stop |-> NoInode]

\* the paths that a walk starts at
MaxWalkChars == 2
WalkPaths == {s \in ProcessPaths : Len(s) <= MaxWalkChars}
MaxSkipChars == 1
SkipPaths == {s \in ProcessPaths : Len(s) <= MaxSkipChars}

\* Walk(path, f); ret[t].a is the inode where f returns SkipDir and ret[t].b
\* the one where it returns its own error, ret[t].flag the order of the maps
WalkWith(t, Starts, Fns, Orders) ==
    /\ Idle(t)
    /\ \A i \in Inodes : CanLock(i)
    /\ UNCHANGED tree
    /\ UNCHANGED locks
    /\ UNCHANGED <<data, cap, io, maxInt, handle>>
    /\ \E path \in Starts, fn \in Fns, backwards \in Orders :
          LET all == WalkOf(path, fn, backwards)
          IN  /\ text' = [text EXCEPT ![t] = [in |-> path, out |-> CleanRelativePath(path)]]
              /\ visited' = [visited EXCEPT ![t] = all.visits]
              /\ Return(t, [Call("Walk", fn.skip, fn.stop, "", "") EXCEPT !.flag = backwards],
                        all.err, NoOut)

\* a single caller makes directories and files and walks the tree with a
\* WalkFunc that returns nil, the maps ranged over in either order
NextWalk ==
    \E t \in {MainThread} :
        \/ AddDirectory(t)
        \/ CreateFileInodeEntry(t)
        \/ WalkWith(t, WalkPaths, {NoFn}, BOOLEAN)

SpecWalk == InitRecorded /\ [][NextWalk]_vars

\* a single caller makes directories and files and walks the tree with a
\* WalkFunc that may return SkipDir or an error of its own
NextSkip ==
    \E t \in {MainThread} :
        \/ AddDirectory(t)
        \/ CreateFileInodeEntry(t)
        \/ WalkWith(t, SkipPaths, WalkFns, {FALSE})

SpecSkip == InitRecorded /\ [][NextSkip]_vars

\* --------------------------------------- one File, called by several threads
\* handle[h] is the *file that OpenFile returned to thread h. Any thread that
\* has the pointer may call it, and fr[t].x is the thread whose File thread t
\* is calling. f.mutex is held from the Lock of Read's and Write's first line
\* to the deferred Unlock: it is the caller's position that says who holds it.

\* the thread whose File every thread calls where one File is shared
Opener == MainThread

\* the positions of a Write between f.mutex.Lock() and the return
InMutex == {"fw_end", "fw_at", "fw_store", "fw_copy"}

\* as MutexFree, but the mutex excludes nobody
MutexFreeAnyway(h) == TRUE

\* f.mutex.Lock() on the File of thread h returns: no caller holds the mutex
MutexFree(h) == \A u \in Threads : ~(pc[u] \in InMutex /\ fr[u].x = h)

\* the frame of thread t's call op on the File of thread h
FileFrame(op, h, p) == [IOFrame(op, handle[h].ino, p, 0) EXCEPT !.x = h]

\* Write on a File in append mode moves the offset to the end of the file
\* first, with the mutex held (spec.md 4.6, write)
SeekToEnd(mode) == IsAppendMode(mode)

\* Read(p) on the File of a thread among Files, for p among Bufs.
\*   fr_lock   the call has begun; f.mutex.Lock(), ReadAt at the offset, the
\*             offset advanced and the Unlock are one step, taken when the
\*             mutex is free and ReadAt gets the read lock of the file
FileRead(t, Files, Bufs) ==
    /\ UNCHANGED tree
    /\ UNCHANGED locks
    /\ UNCHANGED <<data, cap, maxInt, text, visited>>
    /\ \/ /\ Idle(t)
          /\ UNCHANGED <<io, handle>>
          /\ \E h \in Files, p \in Bufs :
                /\ handle[h].ino # NoInode
                /\ Goto(t, "fr_lock", FileFrame("Read", h, p))
       \/ /\ pc[t] = "fr_lock"
          /\ MutexFree(fr[t].x)
          /\ LET h == fr[t].x
                 i == fr[t].a
                 p == fr[t].p
                 off == handle[h].offset
                 r == ReadAtResult(data[i], cap[i], p, off)
             IN  /\ (p.nil \/ off < 0 \/ off > maxInt \/ CanRLock(i))
                 /\ handle' = IF r.err = Panic THEN handle
                              ELSE [handle EXCEPT ![h].offset = Wrap(@ + r.n, MaxInt64)]
                 /\ ReturnIO(t, [fr[t] EXCEPT !.off = off], r)

\* Write(p) on the File of a thread among Files, for p among Bufs.
\*   fw_lock    the call has begun and waits in f.mutex.Lock()
\*   fw_end     the mutex is held and the File is in append mode: Size(),
\*              under the read lock of the file, becomes the offset
\*   fw_at      WriteAt(p, f.offset) is called: its checks, then the write
\*              lock of the file
\*   fw_store   the lock is held and append has returned: i.data = (line 116)
\*   fw_copy    the copy of line 118, the Unlock, f.offset += n, and the
\*              Unlock of the mutex
FileWrite(t, Files, Bufs) ==
    /\ UNCHANGED tree
    /\ UNCHANGED maxInt
    /\ UNCHANGED <<text, visited>>
    /\ \/ /\ Idle(t)
          /\ UNCHANGED locks
          /\ UNCHANGED <<data, cap, io, handle>>
          /\ \E h \in Files, p \in Bufs :
                /\ handle[h].ino # NoInode
                /\ ModeErr("Write", handle[h].mode) = OK
                /\ Goto(t, "fw_lock", FileFrame("Write", h, p))
       \/ /\ pc[t] = "fw_lock"
          /\ MutexFree(fr[t].x)
          /\ UNCHANGED locks
          /\ UNCHANGED <<data, cap, io, handle>>
          /\ IF SeekToEnd(handle[fr[t].x].mode)
             THEN Goto(t, "fw_end", fr[t])
             ELSE Goto(t, "fw_at", [fr[t] EXCEPT !.off = handle[fr[t].x].offset])
       \/ /\ pc[t] = "fw_end"
          /\ CanRLock(fr[t].a)
          /\ UNCHANGED locks
          /\ UNCHANGED <<data, cap, io>>
          /\ handle' = [handle EXCEPT ![fr[t].x].offset = Len(data[fr[t].a])]
          /\ Goto(t, "fw_at", [fr[t] EXCEPT !.off = Len(data[fr[t].a])])
       \/ /\ pc[t] = "fw_at"
          /\ UNCHANGED <<data, cap>>
          /\ LET i == fr[t].a
                 err == WriteAtArgsErr(fr[t].p, fr[t].off)
             IN  IF err # OK
                 THEN /\ UNCHANGED locks
                      /\ UNCHANGED handle
                      /\ ReturnIO(t, fr[t], IOResult(err, 0, data[i]))
                 ELSE /\ CanLock(i)
                      /\ SetLocks(LockNow(t, i))
                      /\ UNCHANGED <<io, handle>>
                      /\ Goto(t, "fw_store",
                              [fr[t] EXCEPT !.buf = Appended(data[i], fr[t].p, fr[t].off)])
       \/ /\ pc[t] = "fw_store"
          /\ UNCHANGED locks
          /\ UNCHANGED <<io, handle>>
          /\ data' = [data EXCEPT ![fr[t].a] = fr[t].buf]
          /\ \E c \in NewCaps(cap[fr[t].a], Len(fr[t].buf)) :
                cap' = [cap EXCEPT ![fr[t].a] = c]
          /\ Goto(t, "fw_copy", fr[t])
       \/ /\ pc[t] = "fw_copy"
          /\ LET i == fr[t].a
                 r == WriteAtResult(data[i], cap[i], fr[t].p, fr[t].off)
             IN  /\ SetLocks(Unlock(L, i))
                 /\ data' = [data EXCEPT ![i] = r.bytes]
                 /\ UNCHANGED cap
                 /\ handle' = IF r.err = Panic THEN handle
                              ELSE [handle EXCEPT ![fr[t].x].offset = Wrap(@ + r.n, MaxInt64)]
                 /\ ReturnIO(t, fr[t], r)

\* thread t has begun a Read or a Write on a File
Began(t) ==
    \/ pc[t] \in InMutex \cup {"fr_lock", "fw_lock"}
    \/ pc[t] = "panic"
    \/ ret[t].op \in {"Read", "Write"}

\* thread t calls Read or Write once, with a buffer of up to MaxLen bytes
CallsOnce(t, Files) ==
    /\ pc[t] = "idle" => ~Began(t)
    /\ \/ FileRead(t, Files, ReadBuffers \cup {NilBuffer})
       \/ FileWrite(t, Files, Buffers)

\* the number of calls of a run on a shared File: the opening, the Seek, and
\* one call for each thread
InitShared ==
    /\ \E d \in SeqsUpTo(MaxLen) : InitOneFile(d, Len(d))
    /\ maxInt \in {MaxInt32, MaxInt64}
    /\ recording = TRUE /\ calls = MaxThreads + 2 /\ prev = NoPrev(FALSE)

\* the first thread opens the file and sets the offset; then every thread
\* calls that one File once
NextShared ==
    \/ handle[Opener].ino = NoInode /\ OpenFileWith(Opener, {O_RDWR})
    \/ (\A u \in Threads : ~Began(u)) /\ Seek(Opener)
    \/ \E t \in Threads : CallsOnce(t, {Opener})

SpecShared == InitShared /\ [][NextShared]_vars

\* ------------------------------------- one file, a File of its own per thread
\* the modes of the Files that append
AppendModes == {O_WRONLY + O_APPEND, O_RDWR + O_APPEND}

\* as InitHandle, for callers that each open the file
InitAppend ==
    /\ \E d \in SeqsUpTo(MaxLen) : InitOneFile(d, Len(d))
    /\ maxInt \in {MaxInt32, MaxInt64}
    /\ recording = TRUE /\ calls = 2 * MaxThreads /\ prev = NoPrev(FALSE)

\* every thread opens the file once in append mode and writes through its
\* File; the first thread also moves the offset of its File
NextAppend ==
    \/ MutexFree(MainThread) /\ Seek(MainThread)
    \/ \E t \in Threads :
          \/ handle[t].ino = NoInode /\ OpenFileWith(t, AppendModes)
          \/ FileWrite(t, {t}, WriteBuffers)

SpecAppend == InitAppend /\ [][NextAppend]_vars

\* --------------------------------- a rename and a reverse lookup at once
\* the thread that asks for the path of a directory while the first thread
\* renames
Looker == CHOOSE t \in Threads : t # MainThread

\* no thread has made a call other than AddDirectory, and none is in one
InPrelude ==
    \A t \in Threads : pc[t] = "idle" /\ ret[t].op \in {"none", "AddDirectory"}

\* the first thread makes directories; then it makes one call of MoveEntry
\* while the other thread makes one call of ReversePathLookup
NextRace ==
    \/ (pc[MainThread] = "idle" => InPrelude) /\ AddDirectory(MainThread)
    \/ (pc[MainThread] = "idle" => ret[MainThread].op # "MoveEntry") /\ MoveEntry(MainThread)
    \/ (pc[Looker] = "idle" => ret[Looker].op = "none") /\ ReversePathLookup(Looker)

SpecRace == InitRecorded /\ [][NextRace]_vars

\* ------------------------- ParsePath, and the directory a path starts from
\* filepath.Join(parts...)
JoinAll(parts) == Clean(JoinParts(parts))

PathInfo(entry, parentPath, mustBeDir, isRelative) ==
    [Entry |-> entry, ParentPath |-> parentPath, MustBeDir |-> mustBeDir,
     IsRelative |-> isRelative]

\* ParsePath lines 119-123: the parent path that RightCut found, "." if
\* there is no separator
ParentOrSelf(cut) == IF cut.found THEN cut.before ELSE <<DotChar>>

\* filepath.ParsePath
ParsePath(path) ==
    LET cleanPath == Clean(path)
        mustBeDir == cleanPath # <<>> /\ cleanPath[Len(cleanPath)] = PathSeparator
        cut == RightCut(IF mustBeDir THEN SubSeq(cleanPath, 1, Len(cleanPath) - 1)
                        ELSE cleanPath)
    IN  IF cleanPath = <<>>
        THEN PathInfo(<<DotChar>>, <<DotChar>>, TRUE, TRUE)
        ELSE IF cleanPath = <<PathSeparator>>
        THEN PathInfo(<<DotChar>>, cleanPath, TRUE, FALSE)
        ELSE PathInfo(cut.after, ParentOrSelf(cut), mustBeDir, IsRelativePath(cleanPath))

\* thread t calls ParsePath on a path: text[t].out is the PathInfo
ParsePathOf(t) ==
    /\ Idle(t)
    /\ UNCHANGED tree
    /\ UNCHANGED locks
    /\ UNCHANGED <<data, cap, io, maxInt, handle, visited>>
    /\ \E s \in LookupPaths :
          /\ text' = [text EXCEPT ![t] = [in |-> s, out |-> ParsePath(s)]]
          /\ Return(t, Call("ParsePath", NoInode, NoInode, "", ""), OK, NoOut)

\* a single caller parses paths
NextParse == \E t \in {MainThread} : ParsePathOf(t)

SpecParse == InitRecorded /\ [][NextParse]_vars

\* toCleanRelativePathAndBaseDir lines 97-104: the directory from which the
\* path is resolved, for a process whose working directory is workdir
BaseDirOf(path, workdir) == IF IsAbsolutePath(Clean(path)) THEN Root ELSE workdir

\* thread t, with some directory as its working directory, resolves a path:
\* ret[t].a is the working directory, ret[t].val the base directory and
\* text[t].out the path relative to it
Resolve(t) ==
    /\ Idle(t)
    /\ UNCHANGED tree
    /\ UNCHANGED locks
    /\ UNCHANGED <<data, cap, io, maxInt, handle, visited>>
    /\ \E s \in ProcessPaths, workdir \in Dirs :
          /\ text' = [text EXCEPT ![t] = [in |-> s, out |-> CleanRelativePath(s)]]
          /\ Return(t, Call("Resolve", workdir, NoInode, "", ""), OK,
                    Out(BaseDirOf(s, workdir), <<>>, {}))

\* a single caller makes directories and resolves paths from them
NextResolve ==
    \E t \in {MainThread} :
        \/ AddDirectory(t)
        \/ Resolve(t)

SpecResolve == InitRecorded /\ [][NextResolve]_vars

\* ------------------------------------------- MakeDirectoryWithAncestors
\* the paths whose parts, once cleaned, are names the model has
MakePaths ==
    {s \in ProcessPaths :
        \A k \in 1 .. Len(Split(CleanRelativePath(s))) :
            \/ Split(CleanRelativePath(s))[k] = <<>>
            \/ EntryName(Split(CleanRelativePath(s))[k]) # NoName}

\* directory.Mkdir(pathPart) lines 152-172 for a part without a separator:
\* the error, OK if AddDirectory makes the directory
MkdirErr(i, part) ==
    IF part = <<>> THEN EPlain ELSE AddDirectoryErr(i, EntryName(part))

\* MakeDirectoryWithAncestors lines 47-50: the error that is returned when
\* the lookup has failed
ErrToWrap(mkdirErr, lookupErr) == IF mkdirErr = OK THEN lookupErr ELSE mkdirErr

\* process.MakeDirectoryWithAncestors(path) by a process whose working
\* directory is the root. fr.x is baseDir and fr.path the parts still to go.
\*   mk_part   one pass of the loop: Mkdir of the part, then the lookup
MakeDirectoryWithAncestors(t) ==
    /\ UNCHANGED locks
    /\ UNCHANGED <<data, cap, io, maxInt, handle, visited>>
    /\ \A i \in Dirs : CanRLock(i) /\ CanAnnounce(i)
    /\ \/ /\ Idle(t)
          /\ UNCHANGED tree
          /\ \E path \in MakePaths :
                /\ text' = [text EXCEPT ![t] = [in |-> path,
                                                out |-> CleanRelativePath(path)]]
                /\ Goto(t, "mk_part",
                        [PathCall("MakeDirectoryWithAncestors") EXCEPT
                            !.x = Root, !.path = Split(CleanRelativePath(path))])
       \/ /\ pc[t] = "mk_part"
          /\ UNCHANGED text
          /\ LET i == fr[t].x
                 part == Head(fr[t].path)
                 mkdirErr == MkdirErr(i, part)
                 lookup == LookupSubdirectoryOf(i, part)
                 baseDir == IF mkdirErr = OK THEN Fresh ELSE lookup.val
                 lookupErr == IF mkdirErr = OK THEN OK ELSE lookup.err
             IN  /\ mkdirErr = OK => FreeInodes # {}
                 /\ IF mkdirErr = OK
                    THEN /\ kind' = [kind EXCEPT ![Fresh] = "dir"]
                         /\ contents' = [contents EXCEPT
                                            ![i][EntryName(part)] = Fresh,
                                            ![Fresh] = NewDirectoryInode(Fresh, i)]
                         /\ UNCHANGED deleted
                    ELSE UNCHANGED tree
                 /\ IF lookupErr # OK
                    THEN Return(t, fr[t], ErrToWrap(mkdirErr, lookupErr), NoOut)
                    ELSE IF Len(fr[t].path) = 1
                    THEN Return(t, fr[t], OK, Out(baseDir, <<>>, {}))
                    ELSE Goto(t, "mk_part",
                              [fr[t] EXCEPT !.x = baseDir, !.path = Tail(@)])

\* a single caller makes directories and files one at a time, and paths of
\* directories
NextMake ==
    \E t \in {MainThread} :
        \/ AddDirectory(t)
        \/ CreateFileInodeEntry(t)
        \/ MakeDirectoryWithAncestors(t)

SpecMake == InitRecorded /\ [][NextMake]_vars

\* a single caller that creates and renames; besides every call's result and
\* the tree it began with, those of the call before it are kept
InitPairs ==
    /\ InitTree /\ maxInt = MaxInt64
    /\ recording = TRUE /\ calls = MaxRecorded /\ prev = NoPrev(TRUE)

NextPairs ==
    \E t \in {MainThread} :
        \/ AddDirectory(t)
        \/ CreateFileInodeEntry(t)
        \/ MoveEntry(t)

SpecPairs == InitPairs /\ [][NextPairs]_vars

\* a single caller that makes directories and files, renames them, opens files
\* and writes a byte at the start of one
NextReopen ==
    \E t \in {MainThread} :
        \/ AddDirectory(t)
        \/ CreateFileInodeEntry(t)
        \/ MoveEntry(t)
        \/ FileInodeEntry(t)
        \/ WriteAtWith(t, Inodes, {0}, {Buffer(<<MaxByte>>)})

SpecReopen == InitPairs /\ [][NextReopen]_vars

\* a single caller that makes directories and files, removes directories, looks
\* entries up and asks for paths; every call's result and the tree it began
\* with are recorded, and those of the call before it are kept
NextRmdir ==
    \E t \in {MainThread} :
        \/ AddDirectory(t)
        \/ CreateFileInodeEntry(t)
        \/ DeleteDirectory(t)
        \/ DirectoryInodeEntry(t)
        \/ ReversePathLookup(t)

SpecRmdir == InitPairs /\ [][NextRmdir]_vars

\* the directory calls lookup, mkdir, rmdir, read_dir and reverse_path_lookup,
\* issued concurrently
NextDirOps ==
    \E t \in Threads :
        \/ DirectoryInodeEntry(t)
        \/ AddDirectory(t)
        \/ DeleteDirectory(t)
        \/ InodeEntries(t)
        \/ ReversePathLookup(t)

SpecDirOps == Init /\ [][NextDirOps]_vars

\* concurrent callers that insert, while others look entries up and list them;
\* every call's result is recorded
NextInsert ==
    \E t \in Threads :
        \/ AddDirectory(t)
        \/ CreateFileExclusive(t)
        \/ InodeEntries(t)
        \/ DirectoryInodeEntry(t)

SpecInsert == InitRecorded /\ [][NextInsert]_vars

\* ------------------------------------------------------------- who waits
\* the inode whose lock thread t is asking for
LockTarget(t) ==
    CASE pc[t] \in {"ad_w", "cf_w", "df_w", "dd_w", "rn_w", "mv_src_w"} -> fr[t].a
      [] pc[t] \in {"mv_dst", "mv_dst_w"} -> fr[t].b
      [] pc[t] \in {"dd_child", "dd_child_w", "mv_old", "mv_old_w", "de_child",
                    "rp_isroot", "rp_isroot2", "rp_parent"} -> fr[t].x
      [] pc[t] \in {"mv_setp", "mv_setp_w", "rp_rev"} -> fr[t].m
      [] OTHER -> NoInode

\* t is inside Lock(), behind the writer that came first
Entering(t) == pc[t] \in {"mv_dst", "dd_child", "mv_old", "mv_setp"}
\* t is inside Lock(), waiting for the readers to leave
Draining(t) == pc[t] \in {"ad_w", "cf_w", "df_w", "dd_w", "rn_w", "mv_src_w", "mv_dst_w",
                          "dd_child_w", "mv_old_w", "mv_setp_w"}
\* t is inside RLock()
Reading(t) == pc[t] \in {"de_child", "rp_isroot", "rp_isroot2", "rp_parent", "rp_rev"}

\* the threads that have to release a lock before t can go on
WaitsFor(t) ==
    IF Entering(t) \/ Reading(t)
    THEN IF wmu[LockTarget(t)] # NoThread THEN {wmu[LockTarget(t)]} ELSE {}
    ELSE IF Draining(t)
    THEN {u \in Threads : readers[LockTarget(t)][u] > 0}
    ELSE {}

\* the threads that wait for a thread of S
Prune(S) == {t \in S : WaitsFor(t) \cap S # {}}

RECURSIVE Stuck(_)
Stuck(S) == IF Prune(S) = S THEN S ELSE Stuck(Prune(S))

\* the threads that can never go on: each waits for another one of them
Deadlocked == Stuck(Threads)

\* t runs the two-parent path of MoveEntry
CrossMove(t) == fr[t].op = "MoveEntry" /\ fr[t].a # fr[t].b

\* ---------------------------------------------------------------- claims

\* C1: two concurrent cross-parent renames over the same pair of distinct
\* parents, one from P to Q and the other from Q to P, never wait for each other
C1_OppositeMovesNeverDeadlock ==
    \A t \in Threads, u \in Threads :
        (/\ t # u
         /\ CrossMove(t) /\ CrossMove(u)
         /\ fr[t].a = fr[u].b /\ fr[t].b = fr[u].a)
        => ~(u \in WaitsFor(t) /\ t \in WaitsFor(u))

\* C2: a rename issued by a single caller never waits for a lock that the same
\* call already holds
C2_RenameNeverWaitsForItself ==
    \A t \in Threads : fr[t].op = "MoveEntry" => t \notin WaitsFor(t)

\* C3: lookup, mkdir, rmdir, read_dir and reverse_path_lookup calls issued
\* concurrently never reach a state in which some of them wait for each other
C3_DirOpsNeverDeadlock == Deadlocked = {}

\* the entry table of parent i is between its state before t's move and its
\* state after it: the entry dst.Entry named is removed and the moved inode is
\* not inserted yet, or the moved inode is listed under both names
Torn(t, i) ==
    /\ CrossMove(t)
    /\ i \in MoveLocks(fr[t])
    /\ fr[t].m # NoInode
    /\ \/ fr[t].x # NoInode /\ contents[fr[t].b][fr[t].dst] = NoInode
       \/ contents[fr[t].a][fr[t].src] = fr[t].m /\ contents[fr[t].b][fr[t].dst] = fr[t].m

\* C4: while the entry table of either parent of a cross-parent rename is in
\* an intermediate state, no reader holds a read lock on that parent and none
\* can obtain one: a reader sees the table before or after the rename only
C4_CrossMoveAtomicForReaders ==
    \A t \in Threads, i \in Inodes :
        Torn(t, i) => /\ NoReaders(i)
                      /\ ~CanRLock(i)
                      /\ wmu[i] = t /\ wact[i]

\* a reader waits for a parent whose table is in an intermediate state
C4_ReaderWaitsWhileTorn ==
    \E t \in Threads, u \in Threads, i \in Inodes :
        /\ u # t
        /\ Torn(t, i)
        /\ Reading(u)
        /\ LockTarget(u) = i

\* no call is in progress
Quiescent == \A t \in Threads : pc[t] = "idle"

\* the last call of t was a successful move of a directory to another parent
MovedDirectoryAcross(t) ==
    /\ ret[t].op = "MoveEntry"
    /\ ret[t].err = OK
    /\ ret[t].a # ret[t].b
    /\ snap[t].c[ret[t].a][ret[t].src] # NoInode
    /\ snap[t].k[snap[t].c[ret[t].a][ret[t].src]] = "dir"

\* C5: between the calls of a single caller, every directory has "." bound to
\* itself, every directory listed under a name has ".." bound to the directory
\* that lists it, root has both bound to root, and a directory that has just
\* been moved to another parent has ".." bound to the destination parent
C5_DotAndDotDot ==
    Quiescent =>
        /\ \A d \in Dirs : contents[d][SelfDirectoryEntry] = d
        /\ \A p \in Dirs, e \in Names :
              (Exists(contents, p, e) /\ IsDirectory(contents[p][e]))
              => contents[contents[p][e]][ParentDirectoryEntry] = p
        /\ contents[Root][ParentDirectoryEntry] = Root
        /\ \A t \in Threads :
              MovedDirectoryAcross(t)
              => contents[snap[t].c[ret[t].a][ret[t].src]][ParentDirectoryEntry] = ret[t].b

\* a directory has been moved to another parent, and is listed there
C5_DirectoryMovedAcross ==
    /\ Quiescent
    /\ \E t \in Threads :
          /\ MovedDirectoryAcross(t)
          /\ contents[ret[t].b][ret[t].dst] = snap[t].c[ret[t].a][ret[t].src]

\* the renames into or within directory i
MovesInto(i) ==
    {MoveFrame(sp, i, s, d, sMust, dMust) :
        sp \in Dirs, s \in EntryNames, d \in EntryNames,
        sMust \in BOOLEAN, dMust \in BOOLEAN}

Inserted(t) == pc[t] = "idle" /\ ret[t].op \in {"AddDirectory", "CreateFileInodeEntry"}

\* the successful insertions of name n into directory d
WinsFor(d, n) == {w \in wins : w.dir = d /\ w.name = n}

\* the kind of inode an insertion makes
KindOf(op) == IF op = "AddDirectory" THEN "dir" ELSE "file"

\* at most one insertion of a name succeeds, the name is bound to the inode
\* that insertion made and is listed once with its kind, every insertion
\* returns nil or EExist, and one that returns EExist lost to a successful one
InsertionsAgree ==
    /\ \A d \in Dirs, n \in EntryNames : Cardinality(WinsFor(d, n)) <= 1
    /\ \A w \in wins :
          /\ contents[w.dir][w.name] = w.inode
          /\ kind[w.inode] = KindOf(w.op)
          /\ {p \in Listing(w.dir) : p[1] = w.name} = {<<w.name, KindOf(w.op)>>}
    /\ \A t \in Threads :
          Inserted(t) =>
              /\ ret[t].err \in {OK, EExist}
              /\ ret[t].err = OK =>
                    [t |-> t, op |-> ret[t].op, dir |-> ret[t].a, name |-> ret[t].src,
                     inode |-> ret[t].val] \in wins
              /\ (ret[t].err = EExist /\ ret[t].src \in Names) =>
                    WinsFor(ret[t].a, ret[t].src) # {}

\* an entry of a directory changes only from absent to the inode of a new
\* successful insertion: an insertion that fails changes no entry table
OnlyWinsInsert ==
    \A d \in Dirs, n \in EntryNames :
        contents'[d][n] # contents[d][n] =>
            /\ contents[d][n] = NoInode
            /\ \E w \in wins' \ wins :
                  w.dir = d /\ w.name = n /\ w.inode = contents'[d][n]

Args(t) == IF pc[t] = "idle" THEN ret[t] ELSE fr[t]

\* the inodes the source and the destination of t's rename named when it began
SrcBefore(t) == snap[t].c[Args(t).a][Args(t).src]
DstBefore(t) == snap[t].c[Args(t).b][Args(t).dst]

\* t's call is a rename of an existing source onto another entry, with no
\* trailing separator in either path
Renaming(t) ==
    /\ Args(t).op = "MoveEntry"
    /\ Args(t).src \in Names /\ Args(t).dst \in Names
    /\ ~(Args(t).a = Args(t).b /\ Args(t).src = Args(t).dst)
    /\ ~Args(t).sMust /\ ~Args(t).dMust
    /\ SrcBefore(t) # NoInode

\* the tables of both parents of t's rename are as they were when it began
ParentsUnchanged(t) ==
    /\ contents[Args(t).a] = snap[t].c[Args(t).a]
    /\ contents[Args(t).b] = snap[t].c[Args(t).b]

\* the destination of t's rename named a directory that had an entry
OverNonemptyDir(t) ==
    /\ Renaming(t)
    /\ DstBefore(t) # NoInode
    /\ snap[t].k[DstBefore(t)] = "dir"
    /\ Entries(snap[t].c, DstBefore(t)) # {}

\* C8: a rename whose destination names a nonempty directory returns
\* ENotEmpty, with the entry tables of both parents unchanged and the
\* destination directory not marked deleted
C8_RenameOverNonemptyDirFails ==
    \A t \in Threads :
        OverNonemptyDir(t) =>
            /\ t \notin WaitsFor(t)
            /\ pc[t] = "idle" =>
                  /\ ret[t].err = ENotEmpty
                  /\ ParentsUnchanged(t)
                  /\ ~deleted[DstBefore(t)]

\* the destination of t's rename named a file
OverFile(t) ==
    /\ Renaming(t)
    /\ DstBefore(t) # NoInode
    /\ snap[t].k[DstBefore(t)] = "file"

\* C9: a rename of an existing source whose destination names a file returns
\* nil; the destination name is then bound to the source inode, which keeps its
\* kind, the source name is absent and the overwritten file is listed nowhere
\* in the two parents
C9_RenameOverFileSucceeds ==
    \A t \in Threads :
        OverFile(t) =>
            /\ t \notin WaitsFor(t)
            /\ pc[t] = "idle" =>
                  /\ ret[t].err = OK
                  /\ contents[ret[t].b][ret[t].dst] = SrcBefore(t)
                  /\ kind[SrcBefore(t)] = snap[t].k[SrcBefore(t)]
                  /\ contents[ret[t].a][ret[t].src] = NoInode
                  /\ \A e \in Names : /\ contents[ret[t].a][e] # DstBefore(t)
                                       /\ contents[ret[t].b][e] # DstBefore(t)

\* the last call of t was a rename of an entry name onto itself
RenamedOntoItself(t) ==
    /\ pc[t] = "idle"
    /\ ret[t].op = "MoveEntry"
    /\ ret[t].a = ret[t].b
    /\ ret[t].src = ret[t].dst

\* the whole tree is as it was when t's last call began
TreeUnchanged(t) ==
    /\ contents = snap[t].c
    /\ deleted = snap[t].d
    /\ kind = snap[t].k

\* C10 as stated: a rename whose source and destination are the same entry
\* name of the same directory returns nil and leaves the tree unchanged
C10_RenameOntoItselfSucceeds ==
    \A t \in Threads :
        RenamedOntoItself(t) => ret[t].err = OK /\ TreeUnchanged(t)

\* C10, amended: a rename whose source and destination are the same entry
\* name of the same directory leaves the tree unchanged; it returns nil, unless
\* the name is "." or "..", for which it returns EInval
C10_RenameOntoItselfIsNoop ==
    \A t \in Threads :
        RenamedOntoItself(t) =>
            /\ TreeUnchanged(t)
            /\ ret[t].err = IF ret[t].src \in Special THEN EInval ELSE OK

\* an existing file or directory has been renamed onto itself
C10_ExistingRenamedOntoItself ==
    \E t \in Threads :
        /\ RenamedOntoItself(t)
        /\ ret[t].src \in Names
        /\ Exists(contents, ret[t].a, ret[t].src)

\* the last call of t was a rename from or onto "." or ".."
RenamedSpecial(t) ==
    /\ pc[t] = "idle"
    /\ ret[t].op = "MoveEntry"
    /\ (ret[t].src \in Special \/ ret[t].dst \in Special)

\* C11: a rename whose source entry or destination entry is "." or ".."
\* returns EInval, whatever the two parents are, and leaves the tree unchanged
C11_SpecialEntryRenameFails ==
    \A t \in Threads :
        RenamedSpecial(t) => ret[t].err = EInval /\ TreeUnchanged(t)

\* an existing entry has been renamed onto "." or ".." of another directory
C11_ExistingRenamedOntoSpecial ==
    \E t \in Threads :
        /\ RenamedSpecial(t)
        /\ ret[t].src \in Names
        /\ ret[t].a # ret[t].b
        /\ Exists(contents, ret[t].a, ret[t].src)

\* t's call renames an existing entry of a directory to an unused entry name
\* of the same or of another directory
ToUnused(t) ==
    /\ Args(t).op = "MoveEntry"
    /\ Args(t).src \in Names /\ Args(t).dst \in Names
    /\ ~snap[t].d[Args(t).a] /\ ~snap[t].d[Args(t).b]
    /\ SrcBefore(t) # NoInode
    /\ DstBefore(t) = NoInode

\* the call t made before its last was a rename of an existing entry to an
\* unused name that returned nil, and its last call was the rename back
ThereAndBack(t) ==
    /\ pc[t] = "idle"
    /\ prev.ret[t].op = "MoveEntry" /\ prev.ret[t].err = OK
    /\ prev.ret[t].src \in Names /\ prev.ret[t].dst \in Names
    /\ prev.snap[t].c[prev.ret[t].a][prev.ret[t].src] # NoInode
    /\ prev.snap[t].c[prev.ret[t].b][prev.ret[t].dst] = NoInode
    /\ ret[t].op = "MoveEntry"
    /\ ret[t].a = prev.ret[t].b /\ ret[t].src = prev.ret[t].dst
    /\ ret[t].b = prev.ret[t].a /\ ret[t].dst = prev.ret[t].src

\* the tree is as it was before the call t made before its last: the same
\* entry tables, "." and ".." among them, the same kinds and deleted flags
TreeRestored(t) ==
    /\ contents = prev.snap[t].c
    /\ deleted = prev.snap[t].d
    /\ kind = prev.snap[t].k

ChildBefore(t) == snap[t].c[ret[t].a][ret[t].src]

\* the last call of t was a DeleteDirectory of an entry that named a
\* directory with at least one entry besides "." and ".."
RemovedNonEmpty(t) ==
    /\ pc[t] = "idle"
    /\ ret[t].op = "DeleteDirectory"
    /\ ret[t].src \in Names
    /\ ChildBefore(t) # NoInode
    /\ snap[t].k[ChildBefore(t)] = "dir"
    /\ Entries(snap[t].c, ChildBefore(t)) # {}

\* C17: DeleteDirectory of an entry that names a directory with at least one
\* entry besides "." and ".." returns ENotEmpty and changes nothing: the entry
\* stays in the parent, the directory is not marked deleted and its table is
\* as before
C17_RmdirNonEmptyFails ==
    \A t \in Threads :
        RemovedNonEmpty(t) =>
            /\ ret[t].err = ENotEmpty
            /\ TreeUnchanged(t)
            /\ contents[ret[t].a][ret[t].src] = ChildBefore(t)
            /\ ~deleted[ChildBefore(t)]

\* a DeleteDirectory has been called on a directory that holds a file
C17_RmdirOfDirectoryWithFile ==
    \E t \in Threads :
        /\ RemovedNonEmpty(t)
        /\ \E e \in Names : /\ Exists(contents, ChildBefore(t), e)
                             /\ IsFile(contents[ChildBefore(t)][e])

\* the last call of t was a DeleteDirectory that returned nil
Removed(t) ==
    /\ pc[t] = "idle"
    /\ ret[t].op = "DeleteDirectory"
    /\ ret[t].err = OK

\* the directory removed by the call t made before its last
RemovedBefore(t) == prev.snap[t].c[prev.ret[t].a][prev.ret[t].src]

\* the call t made before its last was a DeleteDirectory that returned nil, and
\* its last call was made on the directory removed
CalledOnRemoved(t) ==
    /\ pc[t] = "idle"
    /\ prev.ret[t].op = "DeleteDirectory"
    /\ prev.ret[t].err = OK
    /\ ret[t].a = RemovedBefore(t)

\* C16: when DeleteDirectory(c's name) on p has returned nil, the name is
\* absent from p's table and listing and c is marked deleted; of the calls
\* made next on c itself, AddDirectory and CreateFileInodeEntry fail and add
\* nothing, DirectoryInodeEntry("..") returns p and ReversePathLookup returns
\* ENoEnt
C16_RemovedDirectory ==
    \A t \in Threads :
        /\ Removed(t) =>
              /\ contents[ret[t].a][ret[t].src] = NoInode
              /\ \A n \in Listing(ret[t].a) : n[1] # ret[t].src
              /\ deleted[ChildBefore(t)]
              /\ Entries(snap[t].c, ChildBefore(t)) = {}
        /\ CalledOnRemoved(t) =>
              /\ ret[t].op \in {"AddDirectory", "CreateFileInodeEntry"} =>
                    ret[t].err # OK /\ TreeUnchanged(t)
              /\ (ret[t].op = "DirectoryInodeEntry"
                    /\ ret[t].src = ParentDirectoryEntry) =>
                    ret[t].err = OK /\ ret[t].val = prev.ret[t].a
              /\ ret[t].op = "ReversePathLookup" => ret[t].err = ENoEnt

\* a directory has been removed from a directory other than the root, and the
\* next call was a ReversePathLookup on the directory removed
C16_PathOfRemovedAsked ==
    \E t \in Threads :
        /\ CalledOnRemoved(t)
        /\ prev.ret[t].a # Root
        /\ ret[t].op = "ReversePathLookup"

\* t's call is a ReadAt with a buffer that is not nil and an offset that is
\* not negative
ReadingAt(t) ==
    /\ Args(t).op = "ReadAt"
    /\ ~io[t].p.nil
    /\ io[t].off >= 0

\* the bytes of the file that t's call reads or writes, when the call began
FileBefore(t) == snap[t].b[Args(t).a]

\* the number of bytes ReadAt is to return for a file of length len, the
\* offset off and a buffer of length k
Readable(len, off, k) == Min(k, Max(len - off, 0))

\* C18: ReadAt with a non-nil buffer of length k and an offset off >= 0 on a
\* file of length L does not panic, whether off is below, at or beyond L; it
\* returns n = min(k, max(L - off, 0)), leaves the file's bytes off .. off+n-1
\* at the start of the buffer, and returns io.EOF exactly when n < k, else nil
C18_ReadAtReturnsWhatIsThere ==
    \A t \in Threads :
        ReadingAt(t) =>
            /\ pc[t] # "panic"
            /\ pc[t] = "idle" =>
                  LET n == Readable(Len(FileBefore(t)), io[t].off, Len(io[t].p.b))
                  IN  /\ io[t].n = n
                      /\ SubSeq(io[t].out, 1, n)
                            = SubSeq(FileBefore(t), io[t].off + 1, io[t].off + n)
                      /\ ret[t].err = IF n < Len(io[t].p.b) THEN EOF ELSE OK

\* the last call of t was a WriteAt that returned nil
Written(t) ==
    /\ pc[t] = "idle"
    /\ ret[t].op = "WriteAt"
    /\ ret[t].err = OK

\* C19: when WriteAt(src, off) on a file of length L has returned nil, it has
\* returned len(src), the file has the length max(L, off + len(src)), its
\* bytes off .. off+len(src)-1 are src, its bytes L .. off-1 are zero and
\* every other byte is as before
C19_WriteAtFrame ==
    \A t \in Threads :
        Written(t) =>
            LET i == ret[t].a
                src == io[t].p.b
                off == io[t].off
                len == Len(FileBefore(t))
            IN  /\ io[t].n = Len(src)
                /\ Len(data[i]) = Max(len, off + Len(src))
                /\ \A j \in 1 .. Len(data[i]) :
                      data[i][j] = IF off < j /\ j <= off + Len(src) THEN src[j - off]
                                   ELSE IF j <= len THEN FileBefore(t)[j]
                                   ELSE 0
                /\ \A j \in Inodes \ {i} : data[j] = snap[t].b[j]

\* a WriteAt has begun beyond the end of a file that had bytes
C19_WrittenBeyondEnd ==
    \E t \in Threads :
        /\ Written(t)
        /\ Len(FileBefore(t)) > 0
        /\ io[t].off > Len(FileBefore(t))
        /\ Len(io[t].p.b) > 0

\* the offset and the buffer of t's call: of the one that is running, or of
\* the last one
IOArgs(t) == IF pc[t] = "idle" THEN io[t] ELSE fr[t]

\* t's call is a WriteAt of a buffer that is not nil at an offset off >= 0,
\* and off + len(p) is beyond math.MaxInt
WritingBeyondMaxInt(t) ==
    /\ Args(t).op = "WriteAt"
    /\ ~IOArgs(t).p.nil
    /\ IOArgs(t).off >= 0
    /\ IOArgs(t).off + Len(IOArgs(t).p.b) > maxInt

\* C20: WriteAt of a buffer p at an offset off >= 0 with off + len(p) beyond
\* math.MaxInt returns ENoSpace and 0 and leaves every file as it was, also
\* when the int64 sum wraps around; no slice expression is evaluated with the
\* wrapped sum, so the call does not panic
C20_WriteAtBeyondMaxInt ==
    \A t \in Threads :
        WritingBeyondMaxInt(t) =>
            /\ pc[t] = "idle"
            /\ ret[t].err = ENoSpace
            /\ io[t].n = 0
            /\ data = snap[t].b

\* a WriteAt has been called with an offset and a buffer whose lengths' sum is
\* beyond math.MaxInt64
C20_SumWrappedAround ==
    \E t \in Threads :
        /\ WritingBeyondMaxInt(t)
        /\ IOArgs(t).off + Len(IOArgs(t).p.b) > MaxInt64

\* every thread has written its byte
AllWritten == \A t \in Threads : pc[t] = "idle" /\ ret[t].op = "WriteAt"

\* C15: when each of N threads writes one byte at its own offset among
\* 0 .. N-1 of the same file, in any order, every WriteAt returns 1 and nil,
\* and once all have returned the file has the length N and at each offset
\* the byte that was written there
C15_WritesDoNotInterfere ==
    /\ \A t \in Threads :
          /\ pc[t] # "panic"
          /\ ret[t].op = "WriteAt" => ret[t].err = OK /\ io[t].n = Len(io[t].p.b)
    /\ AllWritten =>
          /\ Len(data[FirstFile]) = Cardinality(Threads)
          /\ \A t \in Threads : data[FirstFile][OwnOffset(t) + 1] = io[t].p.b[1]

\* all have written nonzero bytes to a file that was empty, and the first to
\* write was not the writer of offset 0
C15_LaterOffsetWrittenFirst ==
    /\ AllWritten
    /\ \A t \in Threads : io[t].p.b[1] # 0
    /\ \E t \in Threads : OwnOffset(t) > 0 /\ FileBefore(t) = <<>>

\* ------------------------------------------------------------------- C13
\* t's last call was a DeleteFile that returned nil
Unlinked(t) ==
    /\ pc[t] = "idle"
    /\ ret[t].op = "DeleteFile"
    /\ ret[t].err = OK

\* the call before t's present or last one was a DeleteFile that returned
\* nil; Handle(t) is the file it removed, which a handle opened before refers
\* to, and HandleBytes(t) is what the file held before the removal
UnlinkedBefore(t) ==
    /\ prev.ret[t].op = "DeleteFile"
    /\ prev.ret[t].err = OK
    /\ pc[t] \in {"idle", "panic"}
Handle(t) == prev.snap[t].c[prev.ret[t].a][prev.ret[t].src]
HandleBytes(t) == prev.snap[t].b[Handle(t)]

\* the file i had no name in any directory when t's last call began
Nameless(t, i) ==
    /\ snap[t].k[i] = "file"
    /\ \A d \in Inodes, e \in EntryNames : snap[t].c[d][e] # i

\* C13: when DeleteFile(p) has returned nil, no file's bytes have changed and
\* p names nothing; in the call that follows it, FileInodeEntry(p) and
\* InodeEntry(p) return ENOENT, a ReadAt on the removed file at an offset
\* within it returns the bytes the file had before the removal, and a WriteAt
\* on it that ends within math.MaxInt returns nil and leaves its bytes in the
\* file; a ReadAt on a file without a name returns the bytes the file holds,
\* those written included
C13_OpenAfterUnlink ==
    \A t \in Threads :
        /\ Unlinked(t) =>
              /\ data = snap[t].b
              /\ kind = snap[t].k
              /\ ~Exists(contents, ret[t].a, ret[t].src)
        /\ UnlinkedBefore(t) =>
              /\ (/\ pc[t] = "idle"
                  /\ ret[t].op \in {"FileInodeEntry", "InodeEntry"}
                  /\ ret[t].a = prev.ret[t].a
                  /\ ret[t].src = prev.ret[t].src) => ret[t].err = ENoEnt
              /\ (/\ Args(t).op = "ReadAt"
                  /\ Args(t).a = Handle(t)
                  /\ io[t].off <= Len(HandleBytes(t))) =>
                    LET n == Readable(Len(HandleBytes(t)), io[t].off, Len(io[t].p.b))
                    IN  /\ pc[t] = "idle"
                        /\ io[t].n = n
                        /\ SubSeq(io[t].out, 1, n)
                              = SubSeq(HandleBytes(t), io[t].off + 1, io[t].off + n)
              /\ (/\ Args(t).op = "WriteAt"
                  /\ Args(t).a = Handle(t)
                  /\ io[t].off + Len(io[t].p.b) <= maxInt) =>
                    /\ pc[t] = "idle"
                    /\ ret[t].err = OK
                    /\ SubSeq(data[Handle(t)], io[t].off + 1, io[t].off + Len(io[t].p.b))
                          = io[t].p.b
                    /\ \A j \in 1 .. Len(HandleBytes(t)) :
                          (j <= io[t].off \/ j > io[t].off + Len(io[t].p.b))
                              => data[Handle(t)][j] = HandleBytes(t)[j]
        /\ (/\ pc[t] = "idle"
            /\ ret[t].op = "ReadAt"
            /\ Nameless(t, ret[t].a)
            /\ io[t].off <= Len(data[ret[t].a])) =>
              LET n == Readable(Len(data[ret[t].a]), io[t].off, Len(io[t].p.b))
              IN  /\ io[t].n = n
                  /\ SubSeq(io[t].out, 1, n)
                        = SubSeq(data[ret[t].a], io[t].off + 1, io[t].off + n)

\* a file with bytes has been removed and then read through a handle
C13_ReadAfterUnlink ==
    \E t \in Threads :
        /\ UnlinkedBefore(t)
        /\ pc[t] = "idle"
        /\ ret[t].op = "ReadAt"
        /\ ret[t].a = Handle(t)
        /\ io[t].n > 0

\* ------------------------------------------------------------------- C14
\* t's last call was a rename of an existing entry onto another entry that
\* returned nil
RenamedTo(t) ==
    /\ pc[t] = "idle"
    /\ Renaming(t)
    /\ ret[t].err = OK

\* the call t made before its last was such a rename, of the inode Carried(t),
\* and its last call was a FileInodeEntry
OpenedAfterRename(t) ==
    /\ pc[t] = "idle"
    /\ prev.ret[t].op = "MoveEntry" /\ prev.ret[t].err = OK
    /\ prev.ret[t].src \in Names /\ prev.ret[t].dst \in Names
    /\ ~(prev.ret[t].a = prev.ret[t].b /\ prev.ret[t].src = prev.ret[t].dst)
    /\ ret[t].op = "FileInodeEntry"
Carried(t) == prev.snap[t].c[prev.ret[t].a][prev.ret[t].src]

\* C14: a rename that returned nil has bound the new name to the inode the old
\* name had, has changed no other name of any directory, no inode's kind and
\* no file's bytes; a FileInodeEntry right after the rename of a file returns,
\* at the new name, the inode the old name had, and after the rename of a
\* directory it returns for each file below the directory the inode the file
\* had before
C14_OpenThroughRename ==
    \A t \in Threads :
        /\ RenamedTo(t) =>
              /\ contents[ret[t].b][ret[t].dst] = SrcBefore(t)
              /\ kind = snap[t].k
              /\ data = snap[t].b
              /\ \A d \in Inodes, e \in Names :
                    (<<d, e>> \notin {<<ret[t].a, ret[t].src>>, <<ret[t].b, ret[t].dst>>})
                        => contents[d][e] = snap[t].c[d][e]
        /\ OpenedAfterRename(t) =>
              /\ (/\ ret[t].a = prev.ret[t].b
                  /\ ret[t].src = prev.ret[t].dst
                  /\ prev.snap[t].k[Carried(t)] = "file")
                    => ret[t].err = OK /\ ret[t].val = Carried(t)
              /\ (/\ ret[t].a = Carried(t)
                  /\ ret[t].src \in Names
                  /\ prev.snap[t].c[Carried(t)][ret[t].src] # NoInode
                  /\ prev.snap[t].k[prev.snap[t].c[Carried(t)][ret[t].src]] = "file")
                    => /\ ret[t].err = OK
                       /\ ret[t].val = prev.snap[t].c[Carried(t)][ret[t].src]

\* a directory with a file has been renamed and the file has then been opened
\* through the directory
C14_OpenedBelowRenamedDirectory ==
    \E t \in Threads :
        /\ OpenedAfterRename(t)
        /\ prev.snap[t].k[Carried(t)] = "dir"
        /\ ret[t].a = Carried(t)
        /\ ret[t].err = OK

\* ------------------------------------------------------------------- C29
\* t has the read lock or the write lock of inode i, or is inside Lock() on it
Holds(t, i) == readers[i][t] > 0 \/ wmu[i] = t

\* t, in a call other than MoveEntry, has to wait for the lock of the parent
\* of a directory whose lock it holds
WaitsForParent(t) ==
    /\ fr[t].op # "MoveEntry"
    /\ WaitsFor(t) # {}
    /\ \E i \in Dirs :
          /\ Holds(t, i)
          /\ i # LockTarget(t)
          /\ contents[i][ParentDirectoryEntry] = LockTarget(t)

\* C29: no call other than MoveEntry holds the lock of a directory, for
\* reading or for writing, while it waits for the lock of the directory's
\* parent
C29_NoChildLockWhileAwaitingParent == \A t \in Threads : ~WaitsForParent(t)

\* ------------------------------------------------------------------- C30
\* the inodes whose write lock t has
WriteHeld(t) == {i \in Inodes : wmu[i] = t /\ wact[i]}

\* the step leaves t, which was inside Lock(), with the write lock it asked
\* for: t was behind no writer and found no reader, or the readers have left
TakesWriteLock(t) ==
    /\ Entering(t) \/ Draining(t)
    /\ pc'[t] # pc[t]
    /\ Draining(t) \/ ~Draining(t)'

\* t takes the write lock of an inode while it has the write lock of another
\* one, in a call that is not a MoveEntry between two parents
TakesSecondWriteLock(t) ==
    /\ TakesWriteLock(t)
    /\ WriteHeld(t) \ {LockTarget(t)} # {}
    /\ ~CrossMove(t)

\* no thread outside the two-parent path of MoveEntry has two write locks
AtMostOneWriteLock ==
    \A t \in Threads : Cardinality(WriteHeld(t)) > 1 => CrossMove(t)

\* C30: a thread that has the write locks of two different inodes at the same
\* time is in the two-parent path of MoveEntry; DeleteDirectory, the rename
\* within one parent and every other call take no write lock while they have
\* one
C30_TwoWriteLocksOnlyInCrossMove ==
    /\ []AtMostOneWriteLock
    /\ [][\A t \in Threads : ~TakesSecondWriteLock(t)]_vars

\* ------------------------------------------------------------------- C26
\* C26: Clean is idempotent: what Clean returns for a path of separators, dots
\* and name characters, Clean returns unchanged
C26_CleanIdempotent ==
    \A t \in Threads :
        ret[t].op = "Clean" => Clean(text[t].out) = text[t].out

\* a path with doubled separators, a "." part and leading ".." parts has been
\* cleaned
C26_CleanedEveryWay ==
    \E t \in Threads :
        /\ ret[t].op = "Clean"
        /\ HasPrefix(text[t].in, <<PathSeparator, DotChar, DotChar, PathSeparator>>)
        /\ CollapseSeparators(text[t].in) # text[t].in
        /\ <<DotChar>> \in {Split(text[t].in)[j] : j \in 1 .. Len(Split(text[t].in))}
        /\ text[t].out # text[t].in

\* ------------------------------------------------------------------- C21
\* thread t's last call was Seek, and it has begun no other
Sought(t) == ret[t].op = "Seek" /\ pc[t] = "idle"

\* the offset of t's File before its last call
OffsetBefore(t) == snap[t].h[t].offset

\* what the Seek asked for, as a number: the delta, the offset plus the delta,
\* or the size plus the delta
Asked(t) ==
    CASE ret[t].src = SeekStart -> io[t].off
      [] ret[t].src = SeekCurrent -> OffsetBefore(t) + io[t].off
      [] ret[t].src = SeekEnd -> Len(snap[t].b[ret[t].a]) + io[t].off
      [] OTHER -> -1

\* C21: the offset of a File is never negative. A Seek that succeeds sets the
\* offset to the delta, to the offset plus the delta or to the size plus the
\* delta for SeekStart, SeekCurrent, SeekEnd, also past the end of the file,
\* and returns it; a Seek with another whence, or whose result is negative (as
\* a number or as the int64 that the sum wraps around to), fails with EInval,
\* returns the old offset and leaves the offset as it was; no Seek changes the
\* bytes of a file.
C21_OffsetNeverNegative ==
    \A t \in Threads :
        /\ handle[t].offset >= 0
        /\ Sought(t) =>
              /\ snap[t].b = data
              /\ io[t].n = handle[t].offset
              /\ ret[t].err \in {OK, EInval}
              /\ ret[t].err = OK => handle[t].offset = Asked(t)
              /\ ret[t].err = EInval => handle[t].offset = OffsetBefore(t)
              /\ ret[t].src = OtherWhence => ret[t].err = EInval
              /\ Asked(t) < 0 => ret[t].err = EInval
              /\ Asked(t) > MaxInt64 => ret[t].err = EInval
              /\ (ret[t].src # OtherWhence /\ Asked(t) \in 0 .. MaxInt64) => ret[t].err = OK

\* a Seek from the current offset has put the offset past the end of the file
C21_SoughtPastEnd ==
    \E t \in Threads :
        /\ Sought(t)
        /\ ret[t].src = SeekCurrent
        /\ ret[t].err = OK
        /\ OffsetBefore(t) > 0
        /\ handle[t].offset > Len(data[handle[t].ino])

\* ------------------------------------------------------------------- C22
\* thread t's last call was op on its File, and it has begun no other
Called(t, op) == ret[t].op = op /\ pc[t] = "idle"

\* the call was turned away: EInval, no byte moved, the bytes of the file and
\* the offset of the File as before the call
TurnedAway(t) ==
    /\ ret[t].err = EInval
    /\ io[t].n = 0
    /\ data = snap[t].b
    /\ handle[t] = snap[t].h[t]

RECURSIVE NonEmpty(_)
NonEmpty(parts) ==
    IF parts = <<>> THEN <<>>
    ELSE IF Head(parts) = <<>> THEN NonEmpty(Tail(parts))
    ELSE <<Head(parts)>> \o NonEmpty(Tail(parts))

\* the entries named by parts resolved one after the other from directory i
RECURSIVE Resolved(_, _)
Resolved(i, parts) ==
    IF parts = <<>> THEN Found(i)
    ELSE IF DirectoryEntryOf(i, Head(parts)).err # OK THEN DirectoryEntryOf(i, Head(parts))
    ELSE Resolved(DirectoryEntryOf(i, Head(parts)).val, Tail(parts))

\* thread t's last call was LookupSubdirectory with a relative path
LookedUp(t) == ret[t].op = "LookupSubdirectory" /\ IsRelativePath(text[t].in)

\* C27: LookupSubdirectory of a relative path gives what resolving the non-empty
\* segments of the path in order from the receiver gives, the directory or the
\* error, "." being the directory itself and ".." its parent; a run of
\* separators, also at the end of the path, counts as one separator.
C27_LookupSkipsEmptySegments ==
    \A t \in Threads :
        LookedUp(t) =>
            LET expected == Resolved(ret[t].a, NonEmpty(Split(text[t].in)))
            IN  ret[t].err = expected.err /\ ret[t].val = expected.val

\* ------------------------------------------------------------------- C28
\* the directories that can be reached from those of S by entries other than
\* "." and ".."
RECURSIVE ReachableFrom(_)
ReachableFrom(S) ==
    LET more == S \cup {j \in Dirs : \E i \in S, e \in Names : contents[i][e] = j}
    IN  IF more = S THEN S ELSE ReachableFrom(more)

\* thread t's last call was ReversePathLookup on a directory that can be reached
\* from the root, and it has begun no other
LookedUpBackwards(t) ==
    /\ ret[t].op = "ReversePathLookup"
    /\ pc[t] = "idle"
    /\ ret[t].a \in ReachableFrom({Root})

\* C28: when no other call is running, ReversePathLookup on a directory that can
\* be reached from the root returns an absolute path, and LookupSubdirectory of
\* that path without its leading separator, from the root, gives the directory;
\* for the root the path is "/".
C28_ReversePathLookupInverse ==
    \A t \in Threads :
        LookedUpBackwards(t) =>
            /\ ret[t].err = OK
            /\ IsAbsolutePath(PathOfParts(ret[t].path))
            /\ LookupSubdirectoryOf(Root, Tail(PathOfParts(ret[t].path))) = Found(ret[t].a)
            /\ ret[t].a = Root => PathOfParts(ret[t].path) = <<PathSeparator>>

\* ReversePathLookup has returned the path of a directory two levels below the
\* root
C28_LookedUpTwoBelow ==
    \E t \in Threads :
        /\ LookedUpBackwards(t)
        /\ ret[t].err = OK
        /\ Len(ret[t].path) = 2

\* ------------------------------------------------------------------- C23
\* the path given to thread t's last call ends with a separator and names
\* something: it is not a run of separators and dots only
TrailingSeparator(t) ==
    /\ text[t].in # <<>>
    /\ text[t].in[Len(text[t].in)] = PathSeparator
    /\ \E j \in 1 .. Len(text[t].in) : text[t].in[j] = NameChar

\* the file or directory that the path of t's last call named before the call,
\* NoInode if there was none
NamedBefore(t) ==
    LET segments == NonEmpty(Split(text[t].out))
        dir == Resolved(Root, SubSeq(segments, 1, Len(segments) - 1))
        name == EntryName(segments[Len(segments)])
    IN  IF segments = <<>> \/ dir.err # OK \/ name \notin EntryNames THEN NoInode
        ELSE snap[t].c[dir.val][name]

\* C23: OpenFile and DeleteFile of a path that ends with a separator fail with
\* EInval and change nothing, whether or not the path names an entry; Stat of an
\* existing file with a trailing separator fails with ENotDir.
C23_TrailingSeparatorRejected ==
    \A t \in Threads :
        /\ (ret[t].op \in {"process.OpenFile", "process.DeleteFile"} /\ TrailingSeparator(t))
           => (ret[t].err = EInval /\ contents = snap[t].c /\ handle = snap[t].h)
        /\ (ret[t].op = "process.Stat" /\ TrailingSeparator(t)
              /\ NamedBefore(t) # NoInode /\ IsFile(NamedBefore(t)))
           => ret[t].err = ENotDir

\* ------------------------------------------------------------------- C24
\* thread t's last call was a Walk whose WalkFunc returns nil wherever it is
\* given no error
WalkedAll(t) == ret[t].op = "Walk" /\ ret[t].a = NoInode /\ ret[t].b = NoInode

\* the file or directory that the start path of t's Walk names, NoInode if it
\* names none: the working directory when the path has no segment, and no file
\* when the path ends with a separator
StartOf(t) ==
    LET start == IF NonEmpty(Split(text[t].out)) = <<>> THEN Root ELSE NamedBefore(t)
    IN  IF start = NoInode THEN NoInode
        ELSE IF text[t].in # <<>> /\ text[t].in[Len(text[t].in)] = PathSeparator
                /\ ~IsDirectory(start)
        THEN NoInode
        ELSE start

\* the files and directories under inode i, i among them
Under(i) ==
    (ReachableFrom({i}) \cup
        {contents[d][e] : d \in ReachableFrom({i}) \cap Dirs, e \in Names}) \ {NoInode}

\* the calls of the WalkFunc in t's last Walk that were for inode i
VisitsOf(t, i) == {k \in 1 .. Len(visited[t]) : visited[t][k].ino = i}

\* t's Walk returned nil after calling the WalkFunc once for each file and
\* directory under start, for a directory before its contents, for the entries
\* of a directory in ascending name order, and the other iteration order of the
\* maps gives the same calls
LexicalOrder(t, start) ==
    /\ ret[t].err = OK
    /\ \A k \in 1 .. Len(visited[t]) :
          visited[t][k].ino \in Under(start) /\ visited[t][k].err = OK
    /\ \A i \in Under(start) : Cardinality(VisitsOf(t, i)) = 1
    /\ \A d \in Under(start) \cap Dirs :
          /\ \A e \in Entries(contents, d) :
                \A h \in VisitsOf(t, d), k \in VisitsOf(t, contents[d][e]) : h < k
          /\ \A x \in Entries(contents, d), y \in Entries(contents, d) :
                Less(x, y) =>
                    \A h \in VisitsOf(t, contents[d][x]),
                       k \in VisitsOf(t, contents[d][y]) : h < k
    /\ visited[t] = WalkOf(text[t].in, NoFn, ~ret[t].flag).visits

\* C24: Walk calls the WalkFunc exactly once for every file and directory
\* under the start path, a directory before any of its contents and the
\* entries of one directory in ascending name order, and the calls are the same
\* in the other iteration order of the maps.
C24_WalkVisitsInLexicalOrder ==
    \A t \in Threads :
        (WalkedAll(t) /\ StartOf(t) # NoInode) => LexicalOrder(t, StartOf(t))

\* the same for the walks whose start path Stat resolved
WalkOfStatted ==
    \A t \in Threads :
        (WalkedAll(t) /\ StatOf(text[t].in).err = OK)
            => (StartOf(t) = StatOf(text[t].in).val /\ LexicalOrder(t, StartOf(t)))

\* a walk from the root, the maps ranged over in descending order, of a
\* directory with two entries and a file beside it
WalkedTwoLevels ==
    \E t \in Threads :
        /\ WalkedAll(t) /\ ret[t].flag
        /\ StatOf(text[t].in).err = OK /\ StartOf(t) = Root
        /\ Len(visited[t]) = 4
        /\ \E d \in Dirs \ {Root} :
              /\ Cardinality(Entries(contents, d)) = 2
              /\ VisitsOf(t, d) = {2}

\* ------------------------------------------------------------------- C25
\* thread t's last call was a Walk
HasWalked(t) == ret[t].op = "Walk"

\* in t's last Walk the WalkFunc returned SkipDir from its call number k, and
\* an error of its own or the error it was given
SkippedAt(t, k) ==
    /\ k \in 1 .. Len(visited[t])
    /\ visited[t][k].err = OK /\ visited[t][k].ino = ret[t].a
StoppedAt(t, k) ==
    /\ k \in 1 .. Len(visited[t])
    /\ \/ visited[t][k].err # OK
       \/ visited[t][k].ino = ret[t].b /\ visited[t][k].ino # ret[t].a

\* the error the WalkFunc returned from a call at which it stopped the walk
StopErr(t, k) == IF visited[t][k].err # OK THEN visited[t][k].err ELSE EStop

\* the directory that lists inode i under a name, NoInode if there is none
ParentOf(i) ==
    IF \E d \in Dirs, e \in Names : contents[d][e] = i
    THEN CHOOSE d \in Dirs : \E e \in Names : contents[d][e] = i
    ELSE NoInode

\* the entries of i's parent whose names come after i's name
LaterSiblings(i) ==
    IF ParentOf(i) = NoInode THEN {}
    ELSE {contents[ParentOf(i)][y] : y \in {y \in Entries(contents, ParentOf(i)) :
              \E x \in Names : contents[ParentOf(i)][x] = i /\ Less(x, y)}}

\* the first of them, NoInode if there is none
NextSibling(i) ==
    IF LaterSiblings(i) = {} THEN NoInode
    ELSE CHOOSE s \in LaterSiblings(i) :
             \A x \in Names, y \in Names :
                 (contents[ParentOf(i)][x] = s /\ contents[ParentOf(i)][y] \in LaterSiblings(i))
                     => ~Less(y, x)

\* C25: when the WalkFunc returns SkipDir for a directory, nothing below the
\* directory is visited and the next call is for the directory's next sibling;
\* when it returns SkipDir for a file, the entries of the file's directory that
\* come after it are not visited and the next call is for the next sibling of
\* that directory; Walk then returns nil unless the WalkFunc returns another
\* error, and any other error ends the calls and is what Walk returns.
C25_SkipDirProtocol ==
    \A t \in Threads :
        HasWalked(t) =>
            /\ \A k \in 1 .. Len(visited[t]) :
                  (SkippedAt(t, k) /\ IsDirectory(ret[t].a)) =>
                      /\ \A j \in 1 .. Len(visited[t]) :
                            visited[t][j].ino \notin Under(ret[t].a) \ {ret[t].a}
                      /\ (k > 1 /\ NextSibling(ret[t].a) # NoInode) =>
                            /\ k < Len(visited[t])
                            /\ visited[t][k + 1].ino = NextSibling(ret[t].a)
            /\ \A k \in 1 .. Len(visited[t]) :
                  (SkippedAt(t, k) /\ IsFile(ret[t].a)) =>
                      /\ \A j \in 1 .. Len(visited[t]) :
                            visited[t][j].ino \notin LaterSiblings(ret[t].a)
                      /\ (k > 1 /\ visited[t][1].ino # ParentOf(ret[t].a)
                              /\ NextSibling(ParentOf(ret[t].a)) # NoInode) =>
                            /\ k < Len(visited[t])
                            /\ visited[t][k + 1].ino = NextSibling(ParentOf(ret[t].a))
                      /\ (k = 1 \/ visited[t][1].ino = ParentOf(ret[t].a)) =>
                            k = Len(visited[t])
            /\ (\A k \in 1 .. Len(visited[t]) : ~StoppedAt(t, k)) => ret[t].err = OK
            /\ \A k \in 1 .. Len(visited[t]) :
                  StoppedAt(t, k) => (k = Len(visited[t]) /\ ret[t].err = StopErr(t, k))

\* SkipDir was returned for a file two levels below the start whose directory
\* has an entry after it, and that entry was not visited
C25_SkippedAtFile ==
    \E t \in Threads :
        /\ HasWalked(t) /\ ret[t].err = OK
        /\ SkippedAt(t, 3) /\ IsFile(ret[t].a)
        /\ LaterSiblings(ret[t].a) # {}
        /\ Len(visited[t]) = 3

\* ------------------------------------------------------------------- C31
\* thread t's last call was CreateFileInodeEntry on a directory that was not
\* marked deleted, and it is over
CreatedFileEntry(t) ==
    /\ pc[t] = "idle" /\ ret[t].op = "CreateFileInodeEntry"
    /\ ~snap[t].d[ret[t].a]

\* what the name given to that call was bound to when the call began
BoundBefore(t) == snap[t].c[ret[t].a][ret[t].src]

\* C31: CreateFileInodeEntry(entry, errOnExist) on a name bound to a directory
\* fails with EIsDir for both values of errOnExist; on a name bound to a file
\* it returns that file when errOnExist is false and fails with EExist when it
\* is true; on an unbound name it inserts a new empty file; a failing call
\* inserts nothing.
C31_CreateFileEntryCases ==
    \A t \in Threads :
        CreatedFileEntry(t) =>
            /\ (BoundBefore(t) # NoInode /\ snap[t].k[BoundBefore(t)] = "dir")
                  => ret[t].err = EIsDir
            /\ (BoundBefore(t) # NoInode /\ snap[t].k[BoundBefore(t)] = "file")
                  => IF ret[t].flag THEN ret[t].err = EExist
                     ELSE ret[t].err = OK /\ ret[t].val = BoundBefore(t)
                            /\ contents = snap[t].c
            /\ BoundBefore(t) = NoInode
                  => /\ ret[t].err = OK
                     /\ snap[t].k[ret[t].val] = "free" /\ IsFile(ret[t].val)
                     /\ data[ret[t].val] = <<>>
                     /\ contents = [snap[t].c EXCEPT ![ret[t].a][ret[t].src] = ret[t].val]
            /\ ret[t].err # OK => (contents = snap[t].c /\ kind = snap[t].k)

\* the same with EExist for a name bound to a directory when errOnExist is true
CreateFileEntryAsCoded ==
    \A t \in Threads :
        CreatedFileEntry(t) =>
            /\ (BoundBefore(t) # NoInode /\ snap[t].k[BoundBefore(t)] = "dir")
                  => ret[t].err = IF ret[t].flag THEN EExist ELSE EIsDir
            /\ (BoundBefore(t) # NoInode /\ snap[t].k[BoundBefore(t)] = "file")
                  => IF ret[t].flag THEN ret[t].err = EExist
                     ELSE ret[t].err = OK /\ ret[t].val = BoundBefore(t)
                            /\ contents = snap[t].c
            /\ BoundBefore(t) = NoInode
                  => /\ ret[t].err = OK
                     /\ snap[t].k[ret[t].val] = "free" /\ IsFile(ret[t].val)
                     /\ data[ret[t].val] = <<>>
                     /\ contents = [snap[t].c EXCEPT ![ret[t].a][ret[t].src] = ret[t].val]
            /\ ret[t].err # OK => (contents = snap[t].c /\ kind = snap[t].k)

\* ------------------------------------------------------------------- C32
\* thread t's last call was a rename with entry names other than "." and
\* "..", and it is over
Renamed(t) ==
    /\ pc[t] = "idle" /\ ret[t].op = "MoveEntry"
    /\ ret[t].src \notin Special /\ ret[t].dst \notin Special

\* the source of that rename named nothing when the call began, and the
\* destination is not the same entry of the same directory
RenamedMissing(t) ==
    /\ Renamed(t)
    /\ SrcBefore(t) = NoInode
    /\ ~(ret[t].a = ret[t].b /\ ret[t].src = ret[t].dst)

\* C32: a rename whose source entry does not exist in the source parent fails
\* with ENoEnt and changes nothing, with two parents and with one parent alike.
C32_MissingSourceNotFound ==
    \A t \in Threads :
        RenamedMissing(t) => (ret[t].err = ENoEnt /\ TreeUnchanged(t))

\* the same with the error renameEntry makes with fmt.Errorf for one parent
MissingSourceAsCoded ==
    \A t \in Threads :
        RenamedMissing(t) =>
            /\ TreeUnchanged(t)
            /\ ret[t].err = IF ret[t].a = ret[t].b /\ ~snap[t].d[ret[t].a]
                            THEN EPlain ELSE ENoEnt

\* ------------------------------------------------------------------- C33
\* C33: a rename is rejected with ENoEnt and changes nothing whenever the
\* destination parent is marked deleted, also when it is the source parent and
\* the source and destination names are equal.
C33_DeletedDestinationRejected ==
    \A t \in Threads :
        (Renamed(t) /\ snap[t].d[ret[t].b]) => (ret[t].err = ENoEnt /\ TreeUnchanged(t))

\* the same, but a rename onto the same entry of the same directory returns nil
DeletedDestinationAsCoded ==
    \A t \in Threads :
        (Renamed(t) /\ snap[t].d[ret[t].b]) =>
            /\ TreeUnchanged(t)
            /\ ret[t].err = IF ret[t].a = ret[t].b /\ ret[t].src = ret[t].dst
                            THEN OK ELSE ENoEnt


\* ------------------------------------------------------------------- C34
\* the threads whose one Read or Write on the shared File has returned
Returned == {t \in Threads : ret[t].op \in {"Read", "Write"}}

\* the offset of the shared File when the first Read or Write began: the
\* least of the offsets the callers found, since no call moves it backwards
StartOffset ==
    LET found == {snap[t].h[Opener].offset : t \in {u \in Threads : Began(u)}}
    IN  CHOOSE o \in found : \A x \in found : o <= x

\* the bytes that the calls of the threads in S have read or written
RECURSIVE Transferred(_)
Transferred(S) ==
    IF S = {} THEN 0
    ELSE LET t == CHOOSE u \in S : TRUE IN io[t].n + Transferred(S \ {t})

\* threads t and u were the only callers and each has written its buffer
BothWrote(t, u) ==
    /\ t # u
    /\ {v \in Threads : Began(v)} = {t, u}
    /\ \A v \in {t, u} : ret[v].op = "Write" /\ ret[v].err = OK

\* C34: the calls that move the offset of one File exclude one another; a
\* Read moves the offset by the bytes it produced and a Write by the bytes it
\* wrote, so that the offset is the one the first call found plus the bytes
\* of all the calls that have returned; and when two threads have each written
\* a buffer, p and q, through the same File that stood at offset o, the file
\* holds p followed by q, or q followed by p, from o on, and the offset is
\* o + len(p) + len(q)
C34_HandleCallsSerialized ==
    /\ Cardinality({t \in Threads : pc[t] \in InMutex}) <= 1
    /\ (\E t \in Threads : Began(t)) =>
          /\ handle[Opener].offset = StartOffset + Transferred(Returned)
          /\ \A t, u \in Threads :
                BothWrote(t, u) =>
                   LET p == io[t].p.b
                       q == io[u].p.b
                       o == StartOffset
                       i == handle[Opener].ino
                   IN  /\ handle[Opener].offset = o + Len(p) + Len(q)
                       /\ Len(data[i]) >= o + Len(p) + Len(q)
                       /\ SubSeq(data[i], o + 1, o + Len(p) + Len(q)) \in {p \o q, q \o p}

\* two Writes of different bytes were in progress at once, each begun before
\* the other had returned, and both have returned
C34_WroteAtOnce ==
    \E t, u \in Threads :
        /\ BothWrote(t, u)
        /\ snap[t].h[Opener].offset = snap[u].h[Opener].offset
        /\ Len(io[t].p.b) > 0 /\ Len(io[u].p.b) > 0
        /\ io[t].p.b # io[u].p.b


\* ------------------------------------------------------------------- C35
\* thread t's last call is a Write through its own File that succeeded
Appended1(t) == pc[t] = "idle" /\ ret[t].op = "Write" /\ ret[t].err = OK

\* the length of the file when the first of the Writes began: the least of
\* the lengths the writers found, since no call makes the file shorter
StartLength ==
    LET found == {Len(snap[t].b[FirstFile]) : t \in {u \in Threads : Began(u)}}
    IN  CHOOSE n \in found : \A x \in found : n <= x

\* every call has been made, and it was an OpenFile and a Write for each
\* thread
EachWroteOnce == calls = 0 /\ \A t \in Threads : Appended1(t)

\* C35: a Write through a File in append mode puts its buffer at the end of
\* the file as it is when the bytes are written, wherever the offset was, and
\* leaves the offset at the new size of the file; and when every thread has
\* written once through an appending File of its own, the file has grown by
\* the lengths of all the buffers and holds each buffer whole where its Write
\* put it
C35_AppendWrites ==
    /\ \A t \in Threads :
          (pc[t] = "fw_store" /\ IsAppendMode(handle[t].mode)) =>
              fr[t].off = Len(data[fr[t].a])
    /\ EachWroteOnce =>
          /\ Len(data[FirstFile]) = StartLength + Transferred(Threads)
          /\ \A t \in Threads :
                /\ io[t].off + io[t].n <= Len(data[FirstFile])
                /\ SubSeq(data[FirstFile], io[t].off + 1, io[t].off + io[t].n) = io[t].p.b

\* no thread but t has begun a Write
WritesAlone(t) == \A u \in Threads \ {t} : ~Began(u)

\* what the Write of an appending File does while no other File writes to the
\* file: the bytes go to the end of the file, and the offset is the new size
AppendsAlone ==
    \A t \in Threads :
        (WritesAlone(t) /\ IsAppendMode(handle[t].mode)) =>
            /\ pc[t] = "fw_store" => fr[t].off = Len(data[fr[t].a])
            /\ Appended1(t) =>
                  /\ handle[t].offset = Len(data[FirstFile])
                  /\ io[t].off = Len(snap[t].b[FirstFile])
                  /\ data[FirstFile] = snap[t].b[FirstFile] \o io[t].p.b


\* ------------------------------------------------------------------- C36
\* the directories bound to the names of directory i
Subdirectories(i) == {j \in Dirs : \E e \in Names : contents[i][e] = j}

\* the directories below directory i
Below(i) == IF Subdirectories(i) = {} THEN {} ELSE ReachableFrom(Subdirectories(i))

\* the directory that n steps along ".." lead to from directory i
RECURSIVE Ascend(_, _)
Ascend(i, n) ==
    IF n = 0 \/ i = NoInode THEN i ELSE Ascend(contents[i][ParentDirectoryEntry], n - 1)

\* C36: between the calls the directories form a tree with the root on top:
\* no directory is below itself, ".." leads from every directory to the root
\* in at most as many steps as there are directories, and every directory
\* that is not marked deleted can be reached from the root
C36_DirectoriesFormTree ==
    Quiescent =>
        \A i \in Dirs :
            /\ i \notin Below(i)
            /\ \E n \in 0 .. MaxInodes : Ascend(i, n) = Root
            /\ ~deleted[i] => i \in ReachableFrom({Root})


\* ------------------------------------------------------------------- C37
\* the inode that the names of path lead to from directory i in the tree with
\* the entry tables c, NoInode if they lead nowhere
RECURSIVE Follow(_, _, _)
Follow(c, i, path) ==
    IF path = <<>> \/ i = NoInode THEN i
    ELSE Follow(c, c[i][Head(path)], Tail(path))

\* the directories at and below directory m in the tree with the entry tables c
RECURSIVE AtOrBelow(_, _)
AtOrBelow(c, S) ==
    LET more == S \cup {j \in Dirs : \E i \in S, e \in Names : c[i][e] = j}
    IN  IF more = S THEN S ELSE AtOrBelow(c, more)

\* thread u has renamed a directory, and thread t has asked for the path of
\* that directory or of one below it, which is under the root before and
\* after the rename
LookedUpRenamed(t, u) ==
    /\ Quiescent
    /\ ret[u].op = "MoveEntry" /\ ret[u].err = OK
    /\ ret[t].op = "ReversePathLookup"
    /\ SrcBefore(u) \in Dirs
    /\ ret[t].a \in AtOrBelow(snap[u].c, {SrcBefore(u)})
    /\ ret[t].a \in AtOrBelow(snap[u].c, {Root})
    /\ ret[t].a \in ReachableFrom({Root})

\* C37: ReversePathLookup on a directory that a rename moves, itself or with
\* one of the directories above it, from one place under the root to another
\* returns the path the directory had before the rename or the path it has
\* after it, and no error
C37_LookupDuringRename ==
    \A t, u \in Threads :
        LookedUpRenamed(t, u) =>
            /\ ret[t].err = OK
            /\ \/ Follow(snap[u].c, Root, ret[t].path) = ret[t].a
               \/ Follow(contents, Root, ret[t].path) = ret[t].a


\* what the code gives instead: the path from before or from after the
\* rename, or ENoEnt
LookupDuringRenameAsCoded ==
    \A t, u \in Threads :
        LookedUpRenamed(t, u) =>
            /\ ret[t].err \in {OK, ENoEnt}
            /\ ret[t].err = OK =>
                  \/ Follow(snap[u].c, Root, ret[t].path) = ret[t].a
                  \/ Follow(contents, Root, ret[t].path) = ret[t].a


\* ------------------------------------------------------------------- C39
\* thread t's last call is ParsePath
Parsed(t) == ret[t].op = "ParsePath"

\* a cleaned path without the separator it ends with, if it has more than that
UpToTrailingSeparator(s) ==
    IF Len(s) > 1 /\ s[Len(s)] = PathSeparator THEN SubSeq(s, 1, Len(s) - 1) ELSE s

\* C39: the PathInfo that ParsePath returns has an Entry and a ParentPath
\* that are not empty, and Join(ParentPath, Entry) is the cleaned path without
\* its trailing separator
C39_ParsePathParts ==
    \A t \in Threads :
        Parsed(t) =>
            /\ text[t].out.Entry # <<>>
            /\ text[t].out.ParentPath # <<>>
            /\ JoinAll(<<text[t].out.ParentPath, text[t].out.Entry>>)
                  = UpToTrailingSeparator(Clean(text[t].in))

\* what the code gives instead: the same for every path that is relative
\* and not empty once cleaned
ParsePathAsCoded ==
    \A t \in Threads :
        (Parsed(t) /\ IsRelativePath(Clean(text[t].in)) /\ Clean(text[t].in) # <<>>) =>
            /\ text[t].out.Entry # <<>>
            /\ text[t].out.ParentPath # <<>>
            /\ JoinAll(<<text[t].out.ParentPath, text[t].out.Entry>>)
                  = UpToTrailingSeparator(Clean(text[t].in))

\* ------------------------------------------------------------------- C40
\* thread t's last call resolved a path
Resolved1(t) == ret[t].op = "Resolve"

\* C40: a path is absolute after Clean exactly if it was before, and a path
\* that is absolute is resolved from the root, whatever the working directory
C40_CleanKeepsAbsolute ==
    \A t \in Threads :
        Resolved1(t) =>
            /\ IsAbsolutePath(Clean(text[t].in)) = IsAbsolutePath(text[t].in)
            /\ IsAbsolutePath(text[t].in) => ret[t].val = Root


\* what the code gives instead: a relative path stays relative and is resolved
\* from the working directory; an absolute path stays absolute and is resolved
\* from the root unless Clean leaves nothing of it, and then it is resolved
\* from the working directory
CleanAsCoded ==
    \A t \in Threads :
        Resolved1(t) =>
            /\ IsRelativePath(text[t].in) =>
                  IsRelativePath(Clean(text[t].in)) /\ ret[t].val = ret[t].a
            /\ IsAbsolutePath(text[t].in) =>
                  IF Clean(text[t].in) = <<>>
                  THEN ret[t].val = ret[t].a
                  ELSE IsAbsolutePath(Clean(text[t].in)) /\ ret[t].val = Root


\* ------------------------------------------------------------------- C38
\* thread t's last call is MakeDirectoryWithAncestors
MadeWithAncestors(t) == pc[t] = "idle" /\ ret[t].op = "MakeDirectoryWithAncestors"

\* the inode that the parts lead to from directory i in the tree with the
\* entry tables c: an empty part leads nowhere else, and a part that is not
\* bound, or bound in what is no directory, leads to NoInode
RECURSIVE Reach(_, _, _)
Reach(c, i, parts) ==
    IF parts = <<>> \/ i = NoInode THEN i
    ELSE IF Head(parts) = <<>> THEN Reach(c, i, Tail(parts))
    ELSE Reach(c, IF c[i][".."] = NoInode THEN NoInode ELSE c[i][EntryName(Head(parts))],
               Tail(parts))

\* the parts of the path thread t gave
PartsOf(t) == Split(text[t].out)

\* a part of the path named a file when the call began
NamedFile(t) ==
    \E k \in 1 .. Len(PartsOf(t)) :
        /\ Reach(snap[t].c, Root, SubSeq(PartsOf(t), 1, k)) # NoInode
        /\ snap[t].k[Reach(snap[t].c, Root, SubSeq(PartsOf(t), 1, k))] = "file"

\* C38: MakeDirectoryWithAncestors succeeds when no part of the path named a
\* file, and then every prefix of the path is a directory; when a part of the
\* path named a file it fails with ENotDir
C38_MakeWithAncestors ==
    \A t \in Threads :
        MadeWithAncestors(t) =>
            IF NamedFile(t)
            THEN ret[t].err = ENotDir
            ELSE /\ ret[t].err = OK
                 /\ \A k \in 1 .. Len(PartsOf(t)) :
                       Reach(contents, Root, SubSeq(PartsOf(t), 1, k)) \in Dirs

\* what the code gives instead: the same, but the error is that of Mkdir,
\* EExist
MakeWithAncestorsAsCoded ==
    \A t \in Threads :
        MadeWithAncestors(t) =>
            IF NamedFile(t)
            THEN ret[t].err = EExist
            ELSE /\ ret[t].err = OK
                 /\ \A k \in 1 .. Len(PartsOf(t)) :
                       Reach(contents, Root, SubSeq(PartsOf(t), 1, k)) \in Dirs

====
